---- MODULE Spec2Model ----
(***************************************************************************)
(* Model of the label-printing application: the prints ledger (db.py),     *)
(* the name-only CSV import and the roster merge (imports.py), the         *)
(* validation status rules (validation.py), the identity normaliser        *)
(* (io_utils.py), the command line (main.py) and the GUI handlers that     *)
(* read and write the ledger (gui.py).                                     *)
(*                                                                         *)
(* Text is modelled as a sequence of one-character strings, so that        *)
(* strip(), lower(), upper(), accent folding and the regular-expression    *)
(* substitutions are computed character by character.  A date inside a     *)
(* text is written with one token per numeric field ("31", "12", "2026").  *)
(***************************************************************************)
EXTENDS Integers, Sequences, FiniteSets, TLC

\* ------------------------------------------------------------------ bounds
\* events in the ledger, in a run of the commands and the library calls
MaxEvents == 3
\* events in the ledger, in a run of the GUI
MaxGuiEvents == 2
\* the clock reads 1..MaxTime
MaxTime == 2
\* records given to build_ddn_lookup_from_rows
MaxDdnRows == 3
\* roster rows and updates given to apply_validation_updates
MaxMergeRows == 2
MaxMergeUpdates == 2
\* characters of a name given to normalize_name
MaxNameLen == 5
\* lines of a three-line validation file
MaxLines == 7
\* records of a validation export, and rows of a pre-inscription file
MaxExportRows == 2
\* the longest given-name phrase handed to the splitter, in tokens
MaxTokens == 3
\* rows of a store made by an older schema, and runs of init_db on it
MaxOldRows == 2
MaxInitRuns == 3
\* lines of a CSV file given to import_already_printed_csv
MaxCsvLines == 3

\* ------------------------------------------------------------------ text
Empty == << >>
\* SQL NULL / Python None where a text is expected
Null == << "<null>" >>

WhiteSpace == {" ", "\t"}
IsSpace(c) == c \in WhiteSpace

\* str.strip(): leading and trailing white space removed
RECURSIVE LStrip(_)
LStrip(s) == IF s # Empty /\ IsSpace(Head(s)) THEN LStrip(Tail(s)) ELSE s

RECURSIVE RStrip(_)
RStrip(s) ==
    IF s # Empty /\ IsSpace(s[Len(s)]) THEN RStrip(SubSeq(s, 1, Len(s) - 1)) ELSE s

Strip(s) == RStrip(LStrip(s))

\* (value or "").strip()
OrEmpty(s) == IF s = Null THEN Empty ELSE s
StripOrEmpty(s) == Strip(OrEmpty(s))

UpperCh(c) ==
    CASE c = "a" -> "A" [] c = "d" -> "D" [] c = "e" -> "E" [] c = "m" -> "M"
      [] c = "e'" -> "E'" [] OTHER -> c

LowerCh(c) ==
    CASE c = "A" -> "a" [] c = "D" -> "d" [] c = "E" -> "e" [] c = "M" -> "m"
      [] c = "E'" -> "e'" [] OTHER -> c

RECURSIVE Upper(_)
Upper(s) == IF s = Empty THEN Empty ELSE <<UpperCh(Head(s))>> \o Upper(Tail(s))

RECURSIVE Lower(_)
Lower(s) == IF s = Empty THEN Empty ELSE <<LowerCh(Head(s))>> \o Lower(Tail(s))

\* unicodedata.normalize("NFD", .): a precomposed letter becomes its base
\* letter followed by the combining mark (category Mn)
\* "e'" and "E'" stand for the precomposed letters U+00E9 and U+00C9, "'" for
\* the combining acute accent U+0301
CombiningAcute == "'"
Decompose(c) ==
    CASE c = "e'" -> <<"e", CombiningAcute>>
      [] c = "E'" -> <<"E", CombiningAcute>>
      [] OTHER -> <<c>>
IsMn(c) == c = CombiningAcute

RECURSIVE Nfd(_)
Nfd(s) == IF s = Empty THEN Empty ELSE Decompose(Head(s)) \o Nfd(Tail(s))

strip_accents(text) == SelectSeq(Nfd(OrEmpty(text)), LAMBDA ch : ~IsMn(ch))

\* number of white-space characters at the front of s
RECURSIVE SpaceRun(_)
SpaceRun(s) == IF s # Empty /\ IsSpace(Head(s)) THEN 1 + SpaceRun(Tail(s)) ELSE 0

Drop(s, n) == SubSeq(s, n + 1, Len(s))

\* re.sub(r"\s*-\s*", "-", s): leftmost, non-overlapping, greedy matches
RECURSIVE SubHyphen(_)
SubHyphen(s) ==
    IF s = Empty THEN Empty
    ELSE LET n == SpaceRun(s)
             rest == Drop(s, n)
         IN IF rest # Empty /\ Head(rest) = "-"
            THEN LET after == Tail(rest)
                 IN <<"-">> \o SubHyphen(Drop(after, SpaceRun(after)))
            ELSE <<Head(s)>> \o SubHyphen(Tail(s))

\* re.sub(r"\s+", " ", s)
RECURSIVE SubSpaces(_)
SubSpaces(s) ==
    IF s = Empty THEN Empty
    ELSE IF IsSpace(Head(s))
         THEN <<" ">> \o SubSpaces(Drop(s, SpaceRun(s)))
         ELSE <<Head(s)>> \o SubSpaces(Tail(s))

\* normalize_name collapsing around the hyphens before it strips the accents
normalize_name_hyphen_first(text) ==
    Upper(Strip(SubSpaces(strip_accents(SubHyphen(OrEmpty(text))))))

\* normalize_name without the substitution around the hyphens
normalize_name_no_hyphen(text) == Upper(Strip(SubSpaces(strip_accents(text))))

normalize_name(text) == Upper(Strip(SubSpaces(SubHyphen(strip_accents(text)))))

\* a (nom, prenom) pair is an identity unless both parts are empty
IdentityKey(nom, prenom) == <<normalize_name(nom), normalize_name(prenom)>>
NoIdentity == <<Empty, Empty>>

\* ------------------------------------------------------------------ sets and sequences


Max(S) == CHOOSE x \in S : \A y \in S : y <= x

RECURSIVE Ascending(_)
Ascending(S) ==
    IF S = {} THEN << >>
    ELSE LET m == CHOOSE x \in S : \A y \in S : x <= y IN <<m>> \o Ascending(S \ {m})


\* ------------------------------------------------------------------ the data of the runs
\* surnames and given names as the callers spell them
NomD == <<"D">>
NomDLower == <<"d">>
NomM == <<"M">>
PrenomA == <<"A">>
\* dates of birth (free text, compared as text)
Ddn1 == <<"1">>
Ddn2 == <<"2">>
\* expirations, DD/MM/YYYY
Exp2026 == <<"31", "/", "12", "/", "2026">>
Exp2027 == <<"31", "/", "12", "/", "2027">>
Expirations == {Exp2026, Exp2027}
Email1 == <<"@">>
Montant35 == <<"35">>

\* the imported membership file, as lire_tableau returns it (names normalised)
Roster ==
    << [Nom |-> NomD, Prenom |-> PrenomA, Date_de_naissance |-> Ddn1,
        Expire_le |-> Exp2026, Email |-> Email1, Montant |-> Empty],
       [Nom |-> NomM, Prenom |-> PrenomA, Date_de_naissance |-> Empty,
        Expire_le |-> Exp2026, Email |-> Empty, Montant |-> Montant35] >>

\* ------------------------------------------------------------------ db.py
sha1(text) == <<"sha1(">> \o text \o <<")">>

Truthy(text) == text # Null /\ text # Empty

\* the row record_print inserts (db.py:150-171)
NewEvent(a, ts) ==
    [nom |-> Strip(a.nom), prenom |-> Strip(a.prenom), ddn |-> Strip(a.ddn),
     expire |-> Strip(a.expire),
     email |-> StripOrEmpty(a.email), montant |-> StripOrEmpty(a.montant),
     zpl_checksum |-> IF Truthy(a.zpl) THEN sha1(a.zpl) ELSE Null,
     status |-> a.status, printed_at |-> ts]

SameTuple(e, f) ==
    e.nom = f.nom /\ e.prenom = f.prenom /\ e.ddn = f.ddn /\ e.expire = f.expire

\* record_print with the unique index ux_prints_person_expire still in place
\* and the insert ignoring the conflict
record_print_unique(ps, a, ts) ==
    IF \E i \in 1..Len(ps) : SameTuple(ps[i], NewEvent(a, ts))
    THEN ps ELSE Append(ps, NewEvent(a, ts))

\* record_print on a store that has the prints table: one INSERT, no condition
record_print(ps, a, ts) == Append(ps, NewEvent(a, ts))

\* datetime.utcnow() read after an earlier reading `t`: never earlier, maybe equal
Ticks(t) == {t} \cup (IF t < MaxTime THEN {t + 1} ELSE {})

\* the arguments of a record_print call, with Python's defaults
Args(nom, prenom, ddn, expire, email, montant, zpl, status) ==
    [nom |-> nom, prenom |-> prenom, ddn |-> ddn, expire |-> expire,
     email |-> email, montant |-> montant, zpl |-> zpl, status |-> status]

\* a missing timestamp (SQL NULL, Python None or ""); real timestamps are >= 1
NoTime == 0

Idx(ps) == 1..Len(ps)
Printed(ps, S) == {i \in S : ps[i].status = "printed"}
LastPrint(ps, S) ==
    IF Printed(ps, S) = {} THEN NoTime ELSE Max({ps[i].printed_at : i \in Printed(ps, S)})

\* SELECT 1 FROM prints WHERE nom=? AND prenom=? AND ddn=? AND expire=? LIMIT 1
already_printed(ps, nom, prenom, ddn, expire) ==
    \E i \in Idx(ps) :
        /\ ps[i].nom = Strip(nom) /\ ps[i].prenom = Strip(prenom)
        /\ ps[i].ddn = Strip(ddn) /\ ps[i].expire = Strip(expire)

\* the view v_person_stats: one row per (nom, prenom, ddn) as stored
PersonGroup(ps, g) ==
    {i \in Idx(ps) : <<ps[i].nom, ps[i].prenom, ps[i].ddn>> = g}
PersonGroups(ps) == {<<ps[i].nom, ps[i].prenom, ps[i].ddn>> : i \in Idx(ps)}

\* the view with every status counted (the CASE WHEN status='printed' lost)
v_person_stats_all(ps) ==
    { [nom |-> g[1], prenom |-> g[2], ddn |-> g[3],
       last_print |-> Max({ps[i].printed_at : i \in PersonGroup(ps, g)}),
       cnt |-> Cardinality(PersonGroup(ps, g))] : g \in PersonGroups(ps) }

v_person_stats(ps) ==
    { [nom |-> g[1], prenom |-> g[2], ddn |-> g[3],
       last_print |-> LastPrint(ps, PersonGroup(ps, g)),
       cnt |-> Cardinality(Printed(ps, PersonGroup(ps, g)))] : g \in PersonGroups(ps) }

\* person_stats: the view, filtered by the names that are given
person_stats(ps, nom, prenom) ==
    { r \in v_person_stats(ps) :
        /\ (Truthy(nom) => r.nom = Strip(nom))
        /\ (Truthy(prenom) => r.prenom = Strip(prenom)) }

\* the per-expiration query of refresh_from_db_stats (gui.py:894-901)
ExpireGroup(ps, g) ==
    {i \in Idx(ps) : <<ps[i].nom, ps[i].prenom, ps[i].ddn, ps[i].expire>> = g}
ExpireGroups(ps) ==
    {<<ps[i].nom, ps[i].prenom, ps[i].ddn, ps[i].expire>> : i \in Idx(ps)}
per_expire_rows(ps) ==
    { [nom |-> g[1], prenom |-> g[2], ddn |-> g[3], expire |-> g[4],
       cnt_exp |-> Cardinality(Printed(ps, ExpireGroup(ps, g)))] : g \in ExpireGroups(ps) }

\* ORDER BY printed_at DESC LIMIT 1 over the rows S: any row with the greatest
\* timestamp (SQLite fixes no order among equal timestamps)
Latest(ps, S) == {i \in S : \A j \in S : ps[j].printed_at <= ps[i].printed_at}

\* every order ORDER BY printed_at DESC may return the rows S in
RECURSIVE OrderedDesc(_, _)
OrderedDesc(ps, S) ==
    IF S = {} THEN {<< >>}
    ELSE UNION { {<<ps[i]>> \o t : t \in OrderedDesc(ps, S \ {i})} : i \in Latest(ps, S) }

\* list_prints
list_prints(ps, expire) ==
    OrderedDesc(ps, {i \in Idx(ps) : Truthy(expire) => ps[i].expire = expire})

NoContact == [nom |-> Null, prenom |-> Null, email |-> Null, montant |-> Null]

ContactRows(ps, nom, prenom, ddn) ==
    {i \in Idx(ps) :
        /\ ps[i].nom = Strip(nom) /\ ps[i].prenom = Strip(prenom)
        /\ (Truthy(ddn) /\ Strip(ddn) # Empty => ps[i].ddn = Strip(ddn))}
HasEmail(e) == e.email # Null /\ Strip(e.email) # Empty
OrText(a, b) == IF a # Empty THEN a ELSE b

\* fetch_latest_contact with one query only: every field from the latest row
fetch_latest_contact_one_row(ps, nom, prenom, ddn) ==
    LET base == ContactRows(ps, nom, prenom, ddn)
    IN IF base = {} THEN {NoContact}
       ELSE { [nom |-> OrText(StripOrEmpty(ps[l].nom), Strip(nom)),
               prenom |-> OrText(StripOrEmpty(ps[l].prenom), Strip(prenom)),
               email |-> StripOrEmpty(ps[l].email),
               montant |-> StripOrEmpty(ps[l].montant)] : l \in Latest(ps, base) }

\* fetch_latest_contact on a store that has the prints table: the set of
\* contacts the two LIMIT 1 queries can produce
fetch_latest_contact(ps, nom, prenom, ddn) ==
    LET base == ContactRows(ps, nom, prenom, ddn)
        withEmail == {i \in base : HasEmail(ps[i])}
    IN IF base = {} THEN {NoContact}
       ELSE { [nom |-> OrText(StripOrEmpty(ps[l].nom), Strip(nom)),
               prenom |-> OrText(StripOrEmpty(ps[l].prenom), Strip(prenom)),
               email |-> StripOrEmpty(ps[m].email),
               montant |-> StripOrEmpty(ps[l].montant)] :
               l \in Latest(ps, base),
               m \in IF withEmail = {} THEN Latest(ps, base) ELSE Latest(ps, withEmail) }

\* init_db with a DROP TABLE in its script: the store is recreated empty
init_db_recreate(ps) == << >>

\* init_db: CREATE TABLE IF NOT EXISTS, the indexes and the view; no row is touched
init_db(ps) == ps

\* The store with its schema: the tables, the columns of prints (the row's
\* position stands for id), its rows as functions of the columns, the
\* indexes and the views.
PrintsColumns ==
    {"nom", "prenom", "ddn", "expire", "email", "montant", "zpl_checksum", "status",
     "printed_at"}
PrintsIndexes == {"ix_prints_person_expire", "ix_prints_person", "ix_prints_status_time"}
AttestationIndexes == {"ix_attestation_person", "ix_attestation_sent"}

\* executescript(SCHEMA): the tables created when missing, the unique index
\* dropped, the indexes created when missing, the view dropped and created
SCHEMA(st) ==
    [tables |-> st.tables \cup {"prints", "attestation_emails"},
     columns |-> IF "prints" \in st.tables THEN st.columns ELSE PrintsColumns,
     rows |-> IF "prints" \in st.tables THEN st.rows ELSE << >>,
     indexes |-> ((st.indexes \ {"ux_prints_person_expire"}) \cup PrintsIndexes)
                    \cup AttestationIndexes,
     views |-> (st.views \ {"v_person_stats"}) \cup {"v_person_stats"}]

\* PRAGMA table_info(prints): the names of the columns
_ensure_columns(st) == IF "prints" \in st.tables THEN st.columns ELSE {}

\* ALTER TABLE prints ADD COLUMN c TEXT: the rows read NULL in the new column
AddColumn(st, c) ==
    [st EXCEPT !.columns = st.columns \cup {c},
               !.rows = [k \in 1..Len(st.rows) |->
                            [x \in st.columns \cup {c} |->
                                IF x \in st.columns THEN st.rows[k][x] ELSE Null]]]

_ensure_email_column(st) ==
    IF _ensure_columns(st) # {} /\ "email" \notin _ensure_columns(st)
    THEN AddColumn(st, "email") ELSE st

\* the amount column added by making the table anew, its rows lost
_ensure_montant_column_rebuild(st) ==
    IF _ensure_columns(st) # {} /\ "montant" \notin _ensure_columns(st)
    THEN [st EXCEPT !.columns = st.columns \cup {"montant"}, !.rows = << >>] ELSE st

_ensure_montant_column(st) ==
    IF _ensure_columns(st) # {} /\ "montant" \notin _ensure_columns(st)
    THEN AddColumn(st, "montant") ELSE st

_ensure_attestation_table(st) ==
    [st EXCEPT !.tables = st.tables \cup {"attestation_emails"},
               !.indexes = st.indexes \cup AttestationIndexes]

\* init_db on the store with its schema
init_db_schema(st) ==
    _ensure_attestation_table(_ensure_montant_column(_ensure_email_column(SCHEMA(st))))

\* update_person_montant: UPDATE prints SET montant=? WHERE nom=? AND prenom=?
RECURSIVE update_person_montant(_, _, _, _)
update_person_montant(ps, nom, prenom, montant) ==
    IF ps = << >> THEN << >>
    ELSE LET e == Head(ps)
             hit == e.nom = Strip(nom) /\ e.prenom = Strip(prenom)
         IN << IF hit THEN [e EXCEPT !.montant = StripOrEmpty(montant)] ELSE e >>
            \o update_person_montant(Tail(ps), nom, prenom, montant)

\* ------------------------------------------------------------------ validation.py
\* the numeric fields of a date text: value and number of digits
NumTokens == {"1", "01", "02", "12", "31", "2026", "2027"}
NumValue(tok) ==
    CASE tok = "1" -> 1 [] tok = "01" -> 1 [] tok = "02" -> 2 [] tok = "12" -> 12
      [] tok = "31" -> 31 [] tok = "2026" -> 2026 [] tok = "2027" -> 2027 [] OTHER -> 0
NumDigits(tok) ==
    CASE tok \in {"1"} -> 1 [] tok \in {"01", "02", "12", "31"} -> 2 [] OTHER -> 4
DaysIn(month) == IF month = 2 THEN 28 ELSE 31

\* strftime("%d/%m/%Y")
Pad2(n) ==
    CASE n = 1 -> "01" [] n = 2 -> "02" [] n = 12 -> "12" [] n = 31 -> "31" [] OTHER -> "??"
YearText(n) == IF n = 2026 THEN "2026" ELSE "2027"
FormatDate(d) == <<Pad2(d.day), "/", Pad2(d.month), "/", YearText(d.year)>>

NoDate == [day |-> 0, month |-> 0, year |-> 0]
IsDayTok(tok) == tok \in NumTokens /\ NumDigits(tok) <= 2 /\ NumValue(tok) \in 1..31
IsMonthTok(tok) == tok \in NumTokens /\ NumDigits(tok) <= 2 /\ NumValue(tok) \in 1..12
IsYearTok(tok) == tok \in NumTokens /\ NumDigits(tok) = 4

\* datetime.strptime(text, fmt) for the four formats; NoDate stands for ValueError
ParseFields(text, sep, d, m, y) ==
    IF /\ Len(text) = 5 /\ text[2] = sep /\ text[4] = sep
       /\ IsDayTok(text[d]) /\ IsMonthTok(text[m]) /\ IsYearTok(text[y])
       /\ NumValue(text[d]) <= DaysIn(NumValue(text[m]))
    THEN [day |-> NumValue(text[d]), month |-> NumValue(text[m]), year |-> NumValue(text[y])]
    ELSE NoDate

DateFormats == <<"%d/%m/%Y", "%Y-%m-%d", "%d-%m-%Y", "%Y/%m/%d">>
strptime(text, fmt) ==
    CASE fmt = "%d/%m/%Y" -> ParseFields(text, "/", 1, 3, 5)
      [] fmt = "%Y-%m-%d" -> ParseFields(text, "-", 5, 3, 1)
      [] fmt = "%d-%m-%Y" -> ParseFields(text, "-", 1, 3, 5)
      [] fmt = "%Y/%m/%d" -> ParseFields(text, "/", 5, 3, 1)

RECURSIVE FirstParse(_, _)
FirstParse(text, k) ==
    IF k > Len(DateFormats) THEN NoDate
    ELSE IF strptime(text, DateFormats[k]) # NoDate THEN strptime(text, DateFormats[k])
         ELSE FirstParse(text, k + 1)

\* _normalize_expire trying the first of the formats only
_normalize_expire_first_format(value) ==
    LET text == StripOrEmpty(value)
    IN IF text = Empty THEN Empty
       ELSE IF strptime(text, DateFormats[1]) # NoDate
            THEN FormatDate(strptime(text, DateFormats[1])) ELSE text

_normalize_expire(value) ==
    LET text == StripOrEmpty(value)
    IN IF text = Empty THEN Empty
       ELSE IF FirstParse(text, 1) # NoDate THEN FormatDate(FirstParse(text, 1)) ELSE text

\* dict.get(key): Null when the key is absent
Get(lookup, key) == IF key \in DOMAIN lookup THEN lookup[key] ELSE Null

\* the status texts; the status "" is Empty
StatusRed == <<"red">>
StatusGreen == <<"green">>
StatusOrange == <<"orange">>

\* compute_validation_status with the history test inverted in the "red" rule
compute_validation_status_swapped(key, db_lookup, validation_lookup, default_expire, validators) ==
    IF key = NoIdentity THEN Empty
    ELSE IF key \notin DOMAIN db_lookup /\ key \notin DOMAIN validation_lookup THEN Empty
    ELSE IF key \in DOMAIN validation_lookup /\ key \notin DOMAIN db_lookup THEN StatusRed
    ELSE IF key \in DOMAIN db_lookup /\ key \notin DOMAIN validation_lookup THEN Empty
    ELSE IF _normalize_expire(default_expire) = _normalize_expire(db_lookup[key].expire)
         THEN StatusGreen ELSE StatusOrange

\* compute_validation_status giving "green" only to an identity validated by
\* a person of the allowlist
compute_validation_status_allowlist(key, db_lookup, validation_lookup, default_expire, validators) ==
    IF key = NoIdentity THEN Empty
    ELSE IF key \notin DOMAIN db_lookup /\ key \notin DOMAIN validation_lookup THEN Empty
    ELSE IF key \in DOMAIN validation_lookup /\ key \notin DOMAIN db_lookup THEN Empty
    ELSE IF key \in DOMAIN db_lookup /\ key \notin DOMAIN validation_lookup THEN StatusRed
    ELSE IF /\ _normalize_expire(default_expire) = _normalize_expire(db_lookup[key].expire)
            /\ validation_lookup[key].valide_par \in validators
         THEN StatusGreen ELSE StatusOrange

\* compute_validation_status.  Every entry of a lookup is truthy: a
\* DbExpiration instance, or a row of four fields
compute_validation_status(key, db_lookup, validation_lookup, default_expire, validators) ==
    LET has_db == key \in DOMAIN db_lookup
        has_validation == key \in DOMAIN validation_lookup
    IN IF key = NoIdentity THEN Empty
       ELSE IF ~has_db /\ ~has_validation THEN Empty
       ELSE IF has_validation /\ ~has_db THEN Empty
       ELSE IF has_db /\ ~has_validation THEN StatusRed
       ELSE IF _normalize_expire(default_expire) = _normalize_expire(db_lookup[key].expire)
            THEN StatusGreen ELSE StatusOrange

\* the identities of the ledger, as load_latest_expiration_by_person keys them
KeyOf(e) == IdentityKey(e.nom, e.prenom)
LedgerKeys(ps) == {KeyOf(ps[i]) : i \in Idx(ps)} \ {NoIdentity}
KeyRows(ps, k) == {i \in Idx(ps) : KeyOf(ps[i]) = k}
DbExpiration(e) == [expire |-> StripOrEmpty(e.expire), printed_at |-> e.printed_at]

\* the scan keeping the last row seen for a key instead of the first
load_latest_expiration_oldest(ps) ==
    { [k \in LedgerKeys(ps) |-> DbExpiration(ps[c[k]])] :
        c \in {d \in [LedgerKeys(ps) -> Idx(ps)] :
                 \A k \in LedgerKeys(ps) :
                    /\ d[k] \in KeyRows(ps, k)
                    /\ \A j \in KeyRows(ps, k) : ps[d[k]].printed_at <= ps[j].printed_at} }

\* load_latest_expiration_by_person on a store that has the prints table: the
\* rows come ordered by printed_at DESC and the first row of each key is kept;
\* the set of lookups the scan can return
load_latest_expiration_by_person(ps) ==
    { [k \in LedgerKeys(ps) |-> DbExpiration(ps[c[k]])] :
        c \in {d \in [LedgerKeys(ps) -> Idx(ps)] :
                 \A k \in LedgerKeys(ps) : d[k] \in Latest(ps, KeyRows(ps, k))} }

\* ------------------------------------------------------------------ imports.py
EmptyLookup == << >>

\* the key of build_ddn_lookup_from_rows and import_already_printed_csv
LowerKey(nom, prenom) == <<Lower(normalize_name(nom)), Lower(normalize_name(prenom))>>
DdnKeys(rows) ==
    {LowerKey(rows[i].Nom, rows[i].Prenom) : i \in 1..Len(rows)} \ {NoIdentity}
DdnValues(rows, key) ==
    {StripOrEmpty(rows[i].Date_de_naissance) :
        i \in {j \in 1..Len(rows) : LowerKey(rows[j].Nom, rows[j].Prenom) = key}} \ {Empty}

\* the lookup keeping the first date of birth seen when several were observed
build_ddn_lookup_first(rows) ==
    [key \in DdnKeys(rows) |->
        IF DdnValues(rows, key) = {} THEN Null
        ELSE LET first == CHOOSE i \in 1..Len(rows) :
                     /\ LowerKey(rows[i].Nom, rows[i].Prenom) = key
                     /\ StripOrEmpty(rows[i].Date_de_naissance) # Empty
                     /\ \A j \in 1..(i - 1) :
                            ~(/\ LowerKey(rows[j].Nom, rows[j].Prenom) = key
                              /\ StripOrEmpty(rows[j].Date_de_naissance) # Empty)
             IN StripOrEmpty(rows[first].Date_de_naissance)]

\* build_ddn_lookup_from_rows; None is written Null
build_ddn_lookup_from_rows(rows) ==
    [key \in DdnKeys(rows) |->
        IF Cardinality(DdnValues(rows, key)) = 1
        THEN CHOOSE v \in DdnValues(rows, key) : TRUE
        ELSE Null]

\* SQLite's LOWER(): ASCII letters only
SqlLowerCh(c) ==
    CASE c = "A" -> "a" [] c = "D" -> "d" [] c = "E" -> "e" [] c = "M" -> "m" [] OTHER -> c
RECURSIVE SqlLower(_)
SqlLower(s) == IF s = Empty THEN Empty ELSE <<SqlLowerCh(Head(s))>> \o SqlLower(Tail(s))

\* SELECT DISTINCT ddn FROM prints WHERE LOWER(nom)=? AND LOWER(prenom)=?,
\* the values that are not blank
ddn_candidates(ps, key) ==
    {d \in {ps[i].ddn : i \in {j \in Idx(ps) :
                SqlLower(ps[j].nom) = key[1] /\ SqlLower(ps[j].prenom) = key[2]}} :
        StripOrEmpty(d) # Empty}

\* the resolution asking the roster lookup before the history
resolve_ddn_roster_first(ps, key, rows_ddn_lookup) ==
    IF OrEmpty(Get(rows_ddn_lookup, key)) # Empty THEN OrEmpty(Get(rows_ddn_lookup, key))
    ELSE IF Cardinality(ddn_candidates(ps, key)) = 1
         THEN StripOrEmpty(CHOOSE d \in ddn_candidates(ps, key) : TRUE)
         ELSE Empty

\* the date of birth import_already_printed_csv gives a line (imports.py:462-481)
resolve_ddn(ps, key, rows_ddn_lookup) ==
    IF Cardinality(ddn_candidates(ps, key)) = 1
    THEN StripOrEmpty(CHOOSE d \in ddn_candidates(ps, key) : TRUE)
    ELSE IF Cardinality(ddn_candidates(ps, key)) > 1 THEN Empty
    ELSE OrEmpty(Get(rows_ddn_lookup, key))

ImportArgs(nom, prenom, ddn, expire) ==
    Args(nom, prenom, ddn, expire, Null, Null, Null, "printed")

\* the loop of import_already_printed_csv over the lines still to read: the
\* set of its outcomes (the clock readings differ).  A line that does not have
\* exactly two columns raises ValueError; a query on a store without the
\* prints table raises OperationalError
RECURSIVE ImportLoop(_, _, _, _, _, _, _, _)
ImportLoop(tables, ps, t, lines, expire, lookup, imported, skipped) ==
    IF lines = << >>
    THEN {[raised |-> FALSE, prints |-> ps, now |-> t,
           imported |-> imported, skipped |-> skipped]}
    ELSE LET line == Head(lines) IN
         IF Len(line) # 2
         THEN {[raised |-> TRUE, prints |-> ps, now |-> t,
                imported |-> imported, skipped |-> skipped]}
         ELSE LET nom == normalize_name(Strip(OrEmpty(line[1])))
                  prenom == normalize_name(Strip(OrEmpty(line[2])))
                  key == <<Lower(nom), Lower(prenom)>>
              IN IF nom = Empty /\ prenom = Empty
                 THEN ImportLoop(tables, ps, t, Tail(lines), expire, lookup,
                                 imported, skipped + 1)
                 ELSE IF ~tables
                 THEN {[raised |-> TRUE, prints |-> ps, now |-> t,
                        imported |-> imported, skipped |-> skipped]}
                 ELSE UNION { ImportLoop(tables,
                                record_print(ps, ImportArgs(nom, prenom,
                                    resolve_ddn(ps, key, lookup), expire), ts),
                                ts, Tail(lines), expire, lookup, imported + 1, skipped)
                              : ts \in Ticks(t) }

\* import_already_printed_csv; `csv` is the file's lines, NoFile when it does
\* not exist.  The connection is a context manager: an exception rolls back
\* every insert of the call
NoFile == << <<"<no file>">> >>
import_already_printed_csv(tables, ps, t, csv, expire, lookup) ==
    IF csv = NoFile
    THEN {[raised |-> FALSE, prints |-> ps, now |-> t, imported |-> 0, skipped |-> 0]}
    ELSE { IF o.raised THEN [o EXCEPT !.prints = ps] ELSE o :
             o \in ImportLoop(tables, ps, t, csv, expire, lookup, 0, 0) }

\* _normalize_erreur_valide_flag of apply_validation_updates; a flag text is
\* one word
FlagTrue == <<"true">>
FlagFalse == <<"false">>
NormalizeFlag(value) ==
    LET text == Lower(StripOrEmpty(value))
    IN IF text \in {<<"true">>, <<"yes">>, <<"1">>, <<"y">>, <<"oui">>} THEN FlagTrue
       ELSE IF text \in {<<"false">>, <<"no">>, <<"0">>, <<"n">>, <<"non">>} THEN FlagFalse
       ELSE Empty

\* the match on the two names alone, whatever the dates of birth
MatchesUpdate_ignoring_ddn(row, nom, prenom, ddn_update) ==
    /\ normalize_name(row.Nom) = nom
    /\ normalize_name(row.Prenom) = prenom

\* the first row an update is merged into, 0 when there is none (imports.py:794-804)
MatchesUpdate(row, nom, prenom, ddn_update) ==
    /\ normalize_name(row.Nom) = nom
    /\ normalize_name(row.Prenom) = prenom
    /\ ~(/\ ddn_update # Empty
          /\ StripOrEmpty(row.Date_de_naissance) # Empty
          /\ StripOrEmpty(row.Date_de_naissance) # ddn_update)
TargetIndex(rows, nom, prenom, ddn_update) ==
    IF \E i \in 1..Len(rows) : MatchesUpdate(rows[i], nom, prenom, ddn_update)
    THEN CHOOSE i \in 1..Len(rows) :
            /\ MatchesUpdate(rows[i], nom, prenom, ddn_update)
            /\ \A j \in 1..(i - 1) : ~MatchesUpdate(rows[j], nom, prenom, ddn_update)
    ELSE 0

\* the row appended for an update that matches no row (imports.py:807-817)
NewRow(update, nom, prenom) ==
    [Nom |-> nom, Prenom |-> prenom,
     Date_de_naissance |-> StripOrEmpty(update.Date_de_naissance),
     Expire_le |-> StripOrEmpty(update.Expire_le),
     Email |-> StripOrEmpty(update.Email),
     Montant |-> StripOrEmpty(update.Montant),
     ErreurValide |-> StripOrEmpty(update.ErreurValide),
     Derniere |-> NoTime, Compteur |-> 0]

\* row[key] = value when the update carries a non-blank value that differs
SetField(old, value) ==
    IF value = Null \/ Strip(value) = Empty THEN old
    ELSE IF StripOrEmpty(old) # Strip(value) THEN Strip(value) ELSE old

\* the flag taking a row without expiration for a conflict
DesiredFlag_empty_conflicts(expire_existing, expire_update) ==
    IF expire_existing # expire_update THEN <<"false">> ELSE <<"true">>

\* the compliance flag after an update with expiration expire_update
DesiredFlag(expire_existing, expire_update) ==
    IF expire_existing # Empty /\ expire_existing # expire_update THEN FlagFalse ELSE FlagTrue

\* the matched row after the merge of one update (imports.py:822-858)
MergedRow(row, update, nom, prenom) ==
    LET expire_existing == StripOrEmpty(row.Expire_le)
        expire_update == StripOrEmpty(update.Expire_le)
        flag == IF expire_update # Empty
                   /\ NormalizeFlag(row.ErreurValide)
                        # DesiredFlag(expire_existing, expire_update)
                THEN DesiredFlag(expire_existing, expire_update)
                ELSE row.ErreurValide
    IN [row EXCEPT
          !.Nom = nom, !.Prenom = prenom,
          !.Date_de_naissance = SetField(row.Date_de_naissance, update.Date_de_naissance),
          !.Expire_le = SetField(row.Expire_le, update.Expire_le),
          !.Email = SetField(row.Email, update.Email),
          !.Montant = SetField(row.Montant, update.Montant),
          !.ErreurValide = flag]

\* apply_validation_updates: <<rows, updated, added>>
RECURSIVE MergeLoop(_, _, _, _)
MergeLoop(rows, updates, updated, added) ==
    IF updates = << >> THEN <<rows, updated, added>>
    ELSE LET update == Head(updates)
             nom == normalize_name(update.Nom)
             prenom == normalize_name(update.Prenom)
             target == TargetIndex(rows, nom, prenom, StripOrEmpty(update.Date_de_naissance))
         IN IF nom = Empty /\ prenom = Empty
            THEN MergeLoop(rows, Tail(updates), updated, added)
            ELSE IF target = 0
            THEN MergeLoop(Append(rows, NewRow(update, nom, prenom)), Tail(updates),
                           updated, added + 1)
            ELSE LET merged == MergedRow(rows[target], update, nom, prenom)
                 IN MergeLoop([rows EXCEPT ![target] = merged], Tail(updates),
                              IF merged # rows[target] THEN updated + 1 ELSE updated,
                              added)

\* the loop without its `break`, merging the update inside it: every row
\* that matches is merged, not the first one only
RECURSIVE MergeEveryMatch(_, _, _, _)
MergeEveryMatch(rows, updates, updated, added) ==
    IF updates = << >> THEN <<rows, updated, added>>
    ELSE LET update == Head(updates)
             nom == normalize_name(update.Nom)
             prenom == normalize_name(update.Prenom)
             hits == {i \in 1..Len(rows) :
                        MatchesUpdate(rows[i], nom, prenom,
                                      StripOrEmpty(update.Date_de_naissance))}
             merged == [i \in 1..Len(rows) |->
                          IF i \in hits THEN MergedRow(rows[i], update, nom, prenom)
                          ELSE rows[i]]
         IN IF nom = Empty /\ prenom = Empty
            THEN MergeEveryMatch(rows, Tail(updates), updated, added)
            ELSE IF hits = {}
            THEN MergeEveryMatch(Append(rows, NewRow(update, nom, prenom)), Tail(updates),
                                 updated, added + 1)
            ELSE MergeEveryMatch(merged, Tail(updates),
                                 updated + Cardinality({i \in hits : merged[i] # rows[i]}),
                                 added)
apply_validation_updates_every_match(rows, updates) == MergeEveryMatch(rows, updates, 0, 0)

apply_validation_updates(rows, updates) == MergeLoop(rows, updates, 0, 0)

\* build_validation_lookup: a later row of a key replaces an earlier one
ValidationKeys(vrows) ==
    {IdentityKey(OrEmpty(vrows[i].nom), OrEmpty(vrows[i].prenom)) : i \in 1..Len(vrows)}
        \ {NoIdentity}
build_validation_lookup(vrows) ==
    [key \in ValidationKeys(vrows) |->
        LET pos == Max({i \in 1..Len(vrows) :
                        IdentityKey(OrEmpty(vrows[i].nom), OrEmpty(vrows[i].prenom)) = key})
        IN [nom |-> key[1], prenom |-> key[2],
            valide_par |-> OrEmpty(vrows[pos].valide_par),
            montant |-> OrEmpty(vrows[pos].montant)]]

\* ------------------------------------------------------------------ imports.py: the three-line extractor
\* A line is written character by character, with one symbol for each of
\* the words "Paye" (the word "Payé"), "par", "Montant" and "Info" and "EUR"
\* for the euro sign.  The lines are those _load_validation_lines returns:
\* not empty, single spaces, no space around a hyphen.
UpperLetters == {"A", "D", "E", "M", "E'"}
LowerLetters == {"a", "d", "e", "m", "e'"}
CapWords == {"Paye", "Montant", "Info"}

\* text.split(" "), the empty tokens left out
RECURSIVE Split(_)
Split(s) ==
    IF s = Empty THEN << >>
    ELSE IF Head(s) = " " THEN Split(Tail(s))
    ELSE LET spaces == {i \in 1..Len(s) : s[i] = " "}
             n == IF spaces = {} THEN Len(s) + 1
                  ELSE CHOOSE i \in spaces : \A j \in spaces : i <= j
         IN <<SubSeq(s, 1, n - 1)>> \o Split(Drop(s, n - 1))

\* " ".join(tokens)
RECURSIVE Join(_)
Join(ts) ==
    IF ts = << >> THEN Empty
    ELSE IF Len(ts) = 1 THEN ts[1] ELSE ts[1] \o <<" ">> \o Join(Tail(ts))

\* the entries of COMMON_FIRST_NAME_TOKENS that the letters of the model spell
COMMON_FIRST_NAME_TOKENS == {<<"A", "D", "A", "M">>, <<"E", "M", "M", "A">>}

\* the token test with the test for a hyphen left out
_token_starts_with_two_uppercase_no_hyphen_test(token) ==
    LET letters == SelectSeq(token, LAMBDA c : c \in UpperLetters \cup LowerLetters)
    IN /\ Len(letters) >= 2
       /\ Upper(token) \notin COMMON_FIRST_NAME_TOKENS
       /\ letters[1] \in UpperLetters /\ letters[2] \in UpperLetters

\* _token_starts_with_two_uppercase: the token may continue the surname
_token_starts_with_two_uppercase(token) ==
    LET letters == SelectSeq(token, LAMBDA c : c \in UpperLetters \cup LowerLetters)
    IN /\ \A i \in 1..Len(token) : token[i] # "-"
       /\ Len(letters) >= 2
       /\ Upper(token) \notin COMMON_FIRST_NAME_TOKENS
       /\ letters[1] \in UpperLetters /\ letters[2] \in UpperLetters

\* score() of _split_compound_last_name
SplitScore(candidate_last, candidate_first, moved) ==
    IF candidate_first = << >> THEN -1000
    ELSE (IF \E i \in 1..Len(candidate_first) :
                \E j \in 1..Len(candidate_first[i]) :
                   candidate_first[i][j] \in LowerLetters
          THEN 5 ELSE 0)
         + Len(candidate_first)
         + (IF Upper(candidate_first[1]) \in COMMON_FIRST_NAME_TOKENS THEN 3 ELSE 0)
         - (IF \E i \in 1..Len(candidate_last) :
                  Upper(candidate_last[i]) \in COMMON_FIRST_NAME_TOKENS
            THEN 4 ELSE 0)
         + (IF moved = 0 THEN 1 ELSE 0)

\* the loop over move_count of _split_compound_last_name; `best` is the best
\* split so far
RECURSIVE SplitScan(_, _, _, _, _)
SplitScan(last_tokens, first_tokens, move_count, max_move, best) ==
    IF move_count > max_move THEN best
    ELSE LET candidate_last == last_tokens \o SubSeq(first_tokens, 1, move_count)
             candidate_first == SubSeq(first_tokens, move_count + 1, Len(first_tokens))
             candidate_score == SplitScore(candidate_last, candidate_first, move_count)
             better ==
                \/ candidate_score > best.score
                \/ candidate_score = best.score /\ Len(candidate_first) < Len(best.first)
                \/ /\ candidate_score = best.score
                   /\ Len(candidate_first) = Len(best.first)
                   /\ move_count > best.move
         IN SplitScan(last_tokens, first_tokens, move_count + 1, max_move,
                      IF better
                      THEN [score |-> candidate_score, last |-> candidate_last,
                            first |-> candidate_first, move |-> move_count]
                      ELSE best)

\* _split_compound_last_name: <<surname, given name>>
_split_compound_last_name(last_name, first_name) ==
    LET last_tokens == Split(last_name)
        first_tokens == Split(first_name)
        max_move == Cardinality({k \in 1..Len(first_tokens) :
                                   \A j \in 1..k :
                                      _token_starts_with_two_uppercase(first_tokens[j])})
        best == SplitScan(last_tokens, first_tokens, 1, max_move,
                          [score |-> SplitScore(last_tokens, first_tokens, 0),
                           last |-> last_tokens, first |-> first_tokens, move |-> 0])
    IN IF first_tokens = << >> THEN <<Join(last_tokens), Empty>>
       ELSE <<Join(best.last), Join(best.first)>>

\* the two groups of a name pattern matched at the front of the tokens `ts`:
\* a first token of two or more upper-case letters or hyphens (of letters of
\* either case when the pattern ignores case), then the tokens that start
\* with an upper-case letter, each as far as its letters and hyphens go
NameGroups(ts, ignore_case) ==
    LET first_class == UpperLetters \cup {"-"}
                         \cup (IF ignore_case THEN LowerLetters \cup {"par"} ELSE {})
        start_class == UpperLetters \cup CapWords
                         \cup (IF ignore_case THEN LowerLetters \cup {"par"} ELSE {})
        name_class == UpperLetters \cup LowerLetters \cup CapWords \cup {"par", "-"}
        width(tok) == IF tok[1] \in CapWords \cup {"par"} THEN 1 ELSE Len(tok)
        run(tok) == Cardinality({k \in 1..Len(tok) : \A j \in 1..k : tok[j] \in name_class})
        whole(k) == ts[k][1] \in start_class /\ run(ts[k]) = Len(ts[k])
        \* the tokens 2..last are in the second group, the last one maybe in part
        last == CHOOSE k \in 2..Len(ts) :
                   /\ \A j \in 2..(k - 1) : whole(j)
                   /\ ts[k][1] \in start_class
                   /\ k = Len(ts) \/ ~whole(k) \/ ts[k + 1][1] \notin start_class
    IN IF /\ Len(ts) >= 2
          /\ Len(ts[1]) >= 2
          /\ \A i \in 1..Len(ts[1]) : ts[1][i] \in first_class
          /\ ts[2][1] \in start_class
       THEN [matched |-> TRUE, last_name |-> ts[1],
             first_name |-> Join(SubSeq(ts, 2, last - 1)
                                   \o <<SubSeq(ts[last], 1, run(ts[last]))>>)]
       ELSE [matched |-> FALSE, last_name |-> Empty, first_name |-> Empty]

\* NAME_AT_START.search(line)
NAME_AT_START(line) == NameGroups(Split(line), FALSE)

\* VALIDATOR_RX.search(line): the name pattern after the first word "par"
\* that one follows
VALIDATOR_RX(line) ==
    LET ts == Split(line)
        hits == {k \in 1..Len(ts) :
                   ts[k] = <<"par">> /\ NameGroups(SubSeq(ts, k + 1, Len(ts)), TRUE).matched}
    IN IF hits = {} THEN NameGroups(<< >>, TRUE)
       ELSE NameGroups(SubSeq(ts, (CHOOSE k \in hits : \A j \in hits : k <= j) + 1, Len(ts)),
                       TRUE)

\* _format_first_name and _normalize_compound_name for one token: each part
\* between hyphens capitalised, or in upper case
RECURSIVE FormatParts(_, _, _)
FormatParts(token, start, capitalise) ==
    IF token = Empty THEN Empty
    ELSE IF Head(token) = "-" THEN <<"-">> \o FormatParts(Tail(token), TRUE, capitalise)
    ELSE <<IF start \/ ~capitalise THEN UpperCh(Head(token)) ELSE LowerCh(Head(token))>>
         \o FormatParts(Tail(token), FALSE, capitalise)

\* _extract_validator: "<given name> <surname>" of the first line that names
\* a validator, "" when none does
RECURSIVE _extract_validator(_)
_extract_validator(lines) ==
    IF lines = << >> THEN Empty
    ELSE LET m == VALIDATOR_RX(Head(lines))
             names == _split_compound_last_name(m.last_name, m.first_name)
             nom == Join([k \in 1..Len(Split(strip_accents(names[1]))) |->
                            FormatParts(Split(strip_accents(names[1]))[k], TRUE, FALSE)])
             prenom == Join([k \in 1..Len(Split(names[2])) |->
                               FormatParts(Split(names[2])[k], TRUE, TRUE)])
         IN IF ~m.matched THEN _extract_validator(Tail(lines))
            ELSE strip_accents(Strip(prenom \o <<" ">> \o nom))

\* ------------------------------------------------------------------ amounts
\* An amount text is written character by character.  A Decimal is its
\* coefficient and its number of fractional digits; NoDecimal stands for
\* InvalidOperation.  "EUR" stands for the euro sign
Digits == <<"0", "1", "2", "3", "4", "5", "6", "7", "8", "9">>
IsDigit(c) == \E i \in 1..10 : Digits[i] = c
DigitValue(c) == (CHOOSE i \in 1..10 : Digits[i] = c) - 1

RECURSIVE NatValue(_)
NatValue(s) ==
    IF s = Empty THEN 0
    ELSE 10 * NatValue(SubSeq(s, 1, Len(s) - 1)) + DigitValue(s[Len(s)])

RECURSIVE NatText(_)
NatText(n) ==
    IF n < 10 THEN <<Digits[n + 1]>> ELSE NatText(n \div 10) \o <<Digits[(n % 10) + 1]>>

NoDecimal == [coef |-> -1, places |-> 0]

\* Decimal(text) for a text of digits and dots: digits with at most one dot
Decimal(text) ==
    LET dots == {i \in 1..Len(text) : text[i] = "."}
        dot == IF dots = {} THEN Len(text) + 1 ELSE CHOOSE i \in dots : TRUE
        digits == SubSeq(text, 1, dot - 1) \o SubSeq(text, dot + 1, Len(text))
    IN IF /\ Cardinality(dots) <= 1
          /\ digits # Empty
          /\ \A i \in 1..Len(digits) : IsDigit(digits[i])
       THEN [coef |-> NatValue(digits), places |-> Len(text) - dot + (IF dots = {} THEN 1 ELSE 0)]
       ELSE NoDecimal

\* d.quantize(Decimal("0.01")), as a number of hundredths (ROUND_HALF_EVEN)
quantize(d) ==
    IF d.places <= 2 THEN d.coef * 10 ^ (2 - d.places)
    ELSE LET unit == 10 ^ (d.places - 2)
             q == d.coef \div unit
             r == d.coef % unit
         IN IF 2 * r > unit \/ (2 * r = unit /\ q % 2 = 1) THEN q + 1 ELSE q

\* the sum of a Decimal and a number of hundredths
DecimalPlus(d, cents) ==
    IF d.places <= 2 THEN [coef |-> quantize(d) + cents, places |-> 2]
    ELSE [coef |-> d.coef + cents * 10 ^ (d.places - 2), places |-> d.places]

\* f"{amount.quantize(Decimal('0.01'))}" for a number of hundredths
_format_amount(cents) ==
    NatText(cents \div 100) \o <<".">> \o <<Digits[((cents % 100) \div 10) + 1]>>
        \o <<Digits[(cents % 10) + 1]>>

\* validation.py _parse_amount: the euro sign and the spaces removed, the
\* comma read as a dot; the empty text is 0
_parse_amount(raw) ==
    LET text == StripOrEmpty(raw)
        kept == SelectSeq(text, LAMBDA c : c \notin {"EUR", " "})
        cleaned == [i \in 1..Len(kept) |-> IF kept[i] = "," THEN "." ELSE kept[i]]
    IN IF text = Empty THEN [coef |-> 0, places |-> 0] ELSE Decimal(cleaned)

\* _load_preinscription_lookup over the rows of the pre-inscription file:
\* the sum, in hundredths, of the amounts of each identity that are neither
\* unreadable nor zero
RECURSIVE PreinscriptionSum(_, _)
PreinscriptionSum(pre, key) ==
    IF pre = << >> THEN 0
    ELSE LET row == Head(pre)
             montant == _parse_amount(row.montant_tarif)
         IN (IF /\ IdentityKey(row.nom, row.prenom) = key
                /\ montant # NoDecimal /\ montant.coef # 0
             THEN quantize(montant) ELSE 0) + PreinscriptionSum(Tail(pre), key)
_load_preinscription_lookup(pre) ==
    LET keys == {IdentityKey(pre[i].nom, pre[i].prenom) :
                   i \in {j \in 1..Len(pre) :
                            /\ _parse_amount(pre[j].montant_tarif) # NoDecimal
                            /\ _parse_amount(pre[j].montant_tarif).coef # 0}} \ {NoIdentity}
    IN [key \in keys |-> PreinscriptionSum(pre, key)]

\* load_validation_export with the supplement left out: the records as read
load_validation_export_as_read(records, pre) == records

\* load_validation_export: the records of the export file, the supplement of
\* the latest pre-inscription file added to the amounts that can be read
load_validation_export(records, pre) ==
    LET lookup == _load_preinscription_lookup(pre)
    IN [i \in 1..Len(records) |->
          LET key == IdentityKey(records[i].nom, records[i].prenom)
              base == _parse_amount(records[i].montant)
          IN IF key # NoIdentity /\ key \in DOMAIN lookup /\ lookup[key] # 0
                /\ base # NoDecimal
             THEN [records[i] EXCEPT
                     !.montant = _format_amount(quantize(DecimalPlus(base, lookup[key])))]
             ELSE records[i]]

\* MONTANT_RX.search(line).group(1): the number after the first word
\* "montant" that one follows, Null when there is no match
MONTANT_RX(line) ==
    LET spaces(p) == IF p <= Len(line) /\ line[p] = " " THEN 1 ELSE 0
        number_at(p) ==
            LET a == p + 1 + spaces(p + 1)
                b == IF a <= Len(line) /\ line[a] \in {":", "-"} THEN a + 1 ELSE a
                c == b + spaces(b)
                int == Cardinality({k \in 1..(Len(line) - c + 1) :
                                      \A j \in 0..(k - 1) : IsDigit(line[c + j])})
                sep == c + int
                frac == IF sep <= Len(line) /\ line[sep] \in {".", ","}
                        THEN Cardinality({k \in 1..2 :
                                \A j \in 1..k : sep + j <= Len(line) /\ IsDigit(line[sep + j])})
                        ELSE 0
            IN IF int = 0 THEN Null
               ELSE SubSeq(line, c, IF frac = 0 THEN sep - 1 ELSE sep + frac)
        hits == {p \in 1..Len(line) : line[p] = "Montant" /\ number_at(p) # Null}
    IN IF hits = {} THEN Null ELSE number_at(CHOOSE p \in hits : \A q \in hits : p <= q)

\* imports.py _extract_amount: the amount of the first line that holds the
\* word "montant" followed by a number, with two fractional digits; "" when
\* no line does
RECURSIVE _extract_amount(_)
_extract_amount(lines) ==
    IF lines = << >> THEN Empty
    ELSE LET candidate == Head(lines)
             raw == MONTANT_RX(candidate)
             cleaned == [i \in 1..Len(raw) |-> IF raw[i] = "," THEN "." ELSE raw[i]]
         IN IF \/ candidate = Empty
               \/ \A i \in 1..Len(candidate) : candidate[i] # "Montant"
               \/ raw = Null
               \/ Decimal(cleaned) = NoDecimal
            THEN _extract_amount(Tail(lines))
            ELSE _format_amount(quantize(Decimal(cleaned)))

\* "pay" in candidate.lower()
HasPay(line) == \E i \in 1..Len(line) : line[i] = "Paye"

\* a scan that ends when the line after a block is not a name line
NextNameLineAdjacent(raw_lines, i) ==
    IF i <= Len(raw_lines) /\ NAME_AT_START(raw_lines[i]).matched
    THEN i ELSE Len(raw_lines) + 1

\* the first line from i on that matches NAME_AT_START, len + 1 when none does
NextNameLine(raw_lines, i) ==
    LET starts == {k \in i..Len(raw_lines) : NAME_AT_START(raw_lines[k]).matched}
    IN IF starts = {} THEN Len(raw_lines) + 1 ELSE CHOOSE k \in starts : \A j \in starts : k <= j

\* the record of a block: the names split and normalised, the validator, the
\* amount
BlockRecord(names, valide_par, montant) ==
    [nom |-> normalize_name(names[1]), prenom |-> normalize_name(names[2]),
     valide_par |-> valide_par, montant |-> montant]

\* the scan of parse_validation_three_line_file from line i (counted from 1):
\* the records it appends, each with the line its block starts at
RECURSIVE ThreeLineScan(_, _, _)

\* one turn of the loop on the candidate line i, given the match of
\* NAME_AT_START, the two lines after it ("" past the end) and their amount
ThreeLineCandidate(raw_lines, i, records, match, line2, line3, montant) ==
    IF \/ ~match.matched
       \/ line2 = Empty \/ line3 = Empty
       \/ ~(HasPay(line2) \/ HasPay(line3))
       \/ montant = Empty
    THEN ThreeLineScan(raw_lines, i + 1, records)
    ELSE ThreeLineScan(raw_lines, NextNameLine(raw_lines, i + 3),
            Append(records,
                [line |-> i,
                 record |-> BlockRecord(
                     _split_compound_last_name(match.last_name, match.first_name),
                     _extract_validator(<<raw_lines[i], line2, line3>>), montant)]))

ThreeLineFollowing(raw_lines, i, records, line2, line3) ==
    ThreeLineCandidate(raw_lines, i, records, NAME_AT_START(raw_lines[i]), line2, line3,
                       _extract_amount(<<line2, line3>>))

ThreeLineScan(raw_lines, i, records) ==
    IF i > Len(raw_lines) THEN records
    ELSE ThreeLineFollowing(raw_lines, i, records,
            IF i + 1 <= Len(raw_lines) THEN raw_lines[i + 1] ELSE Empty,
            IF i + 2 <= Len(raw_lines) THEN raw_lines[i + 2] ELSE Empty)

\* DataFrame.drop_duplicates: the first of the records that are equal is kept
FirstOccurrences(found) ==
    Ascending({i \in 1..Len(found) :
                 \A j \in 1..(i - 1) : found[j].record # found[i].record})
DropDuplicates(found, kept) ==
    [found |-> found, rows |-> [k \in 1..Len(kept) |-> found[kept[k]].record]]
WithoutDuplicates(found) == DropDuplicates(found, FirstOccurrences(found))

\* parse_validation_three_line_file on the lines of the file: the blocks
\* found and the rows returned and exported, the duplicates dropped
parse_validation_three_line_file(raw_lines) ==
    WithoutDuplicates(ThreeLineScan(raw_lines, 1, << >>))

\* ------------------------------------------------------------------ gui.py
\* the session's configuration: the validation export loaded at start-up,
\* the default expiration and the validators of config.ini
GuiValidationRows ==
    << [nom |-> NomDLower, prenom |-> PrenomA, valide_par |-> <<"J">>, montant |-> Montant35] >>
GuiDefaultExpire == Exp2026
GuiValidators == {<<"J">>}

\* self.rows after the import of the membership file
GuiRow(r) ==
    [Nom |-> r.Nom, Prenom |-> r.Prenom, Date_de_naissance |-> r.Date_de_naissance,
     Expire_le |-> r.Expire_le, Email |-> r.Email, Montant |-> r.Montant,
     ErreurValide |-> Empty, Derniere |-> NoTime, Compteur |-> 0]
RECURSIVE GuiRows(_)
GuiRows(rs) == IF rs = << >> THEN << >> ELSE <<GuiRow(Head(rs))>> \o GuiRows(Tail(rs))

\* the keys of stats_person and per_expire_count
GuiKey3(nom, prenom, ddn) ==
    <<Lower(StripOrEmpty(nom)), Lower(StripOrEmpty(prenom)), StripOrEmpty(ddn)>>
GuiKey4(nom, prenom, ddn, expire) ==
    <<Lower(StripOrEmpty(nom)), Lower(StripOrEmpty(prenom)), StripOrEmpty(ddn),
      StripOrEmpty(expire)>>

\* the dictionaries a loop `d[key(row)] = value(row)` over the result rows can
\* build: rows with the same key overwrite each other in the order SQLite
\* returns them, which the query leaves open
StatsPersonMaps(ps) ==
    LET view == v_person_stats(ps)
        keys == {GuiKey3(r.nom, r.prenom, r.ddn) : r \in view}
        vals == {<<r.last_print, r.cnt>> : r \in view}
    IN {f \in [keys -> vals] :
          \A k \in keys : \E r \in view :
             GuiKey3(r.nom, r.prenom, r.ddn) = k /\ f[k] = <<r.last_print, r.cnt>>}
PerExpireMaps(ps) ==
    LET res == per_expire_rows(ps)
        keys == {GuiKey4(r.nom, r.prenom, r.ddn, r.expire) : r \in res}
        vals == {r.cnt_exp : r \in res}
    IN {f \in [keys -> vals] :
          \A k \in keys : \E r \in res :
             GuiKey4(r.nom, r.prenom, r.ddn, r.expire) = k /\ f[k] = r.cnt_exp}

\* _apply_validation_indicators for one row
RowStatus(row, db_lookup) ==
    compute_validation_status(IdentityKey(OrEmpty(row.Nom), OrEmpty(row.Prenom)), db_lookup,
        build_validation_lookup(GuiValidationRows), GuiDefaultExpire, GuiValidators)

\* refresh_from_db_stats: the set of <<rows, per_expire_count>> it can leave.
\* Without the prints table the count map is emptied and the rows are kept
refresh_from_db_stats(tables, ps, rows) ==
    IF ~tables THEN {<<rows, EmptyLookup>>}
    ELSE { << [i \in 1..Len(rows) |->
                 LET pkey == GuiKey3(rows[i].Nom, rows[i].Prenom, rows[i].Date_de_naissance)
                 IN [rows[i] EXCEPT
                       !.Derniere = IF pkey \in DOMAIN sp THEN sp[pkey][1] ELSE NoTime,
                       !.Compteur = IF pkey \in DOMAIN sp THEN sp[pkey][2] ELSE 0,
                       !.ErreurValide = RowStatus(rows[i], dbl)] ],
              pe >> :
            sp \in StatsPersonMaps(ps), pe \in PerExpireMaps(ps),
            dbl \in load_latest_expiration_by_person(ps) }

\* `needle in hay`
Contains(hay, needle) ==
    \E k \in 0..(Len(hay) - Len(needle)) : SubSeq(hay, k + 1, k + Len(needle)) = needle

\* the printed count apply_filter reads for a row: the exact key, else the
\* key with the date of birth left empty, else 0
CountFor(row, pec, expiration) ==
    LET exact == <<Lower(StripOrEmpty(row.Nom)), Lower(StripOrEmpty(row.Prenom)),
                   StripOrEmpty(row.Date_de_naissance), expiration>>
        wild == <<Lower(StripOrEmpty(row.Nom)), Lower(StripOrEmpty(row.Prenom)),
                  Empty, expiration>>
    IN IF exact \in DOMAIN pec THEN pec[exact]
       ELSE IF wild \in DOMAIN pec THEN pec[wild] ELSE 0

\* the filter whose "already printed" mode keeps every row
FilterOk_deja_keeps_all(row, pec, mode, expiration, nom, prenom) ==
    /\ (nom # Empty => Contains(Lower(StripOrEmpty(row.Nom)), nom))
    /\ (prenom # Empty => Contains(Lower(StripOrEmpty(row.Prenom)), prenom))
    /\ (expiration # Empty => StripOrEmpty(row.Expire_le) = expiration)
    /\ (mode = "a_imprimer" => CountFor(row, pec, expiration) = 0)

FilterOk(row, pec, mode, expiration, nom, prenom) ==
    /\ (nom # Empty => Contains(Lower(StripOrEmpty(row.Nom)), nom))
    /\ (prenom # Empty => Contains(Lower(StripOrEmpty(row.Prenom)), prenom))
    /\ (expiration # Empty => StripOrEmpty(row.Expire_le) = expiration)
    /\ (mode = "a_imprimer" => CountFor(row, pec, expiration) = 0)
    /\ (mode = "deja" => CountFor(row, pec, expiration) > 0)

\* apply_filter: view_rows, as the indexes of the rows kept, in order
RECURSIVE FilterFrom(_, _, _, _, _, _, _)
FilterFrom(i, rows, pec, mode, expiration, nom, prenom) ==
    IF i > Len(rows) THEN << >>
    ELSE (IF FilterOk(rows[i], pec, mode, expiration, nom, prenom) THEN <<i>> ELSE << >>)
         \o FilterFrom(i + 1, rows, pec, mode, expiration, nom, prenom)
apply_filter(rows, pec, mode, expiration, nom, prenom) ==
    FilterFrom(1, rows, pec, mode, Strip(expiration), Lower(Strip(nom)), Lower(Strip(prenom)))

\* genere_zpl: the label text rendered from the four fields of a record
ZplContent(r) ==
    <<"^XA">> \o StripOrEmpty(r.Nom) \o <<"|">> \o StripOrEmpty(r.Prenom) \o <<"|">>
        \o StripOrEmpty(r.Date_de_naissance) \o <<"|">> \o StripOrEmpty(r.Expire_le)
        \o <<"^XZ">>

\* ------------------------------------------------------------------ state
VARIABLES
    frontend,          \* what drives the store in this run: "cli" (the commands and
                       \* direct calls of the library) or "gui" (the App window)
    tables,            \* the store has the prints table and the view (init_db ran)
    prints,            \* the rows of the prints table, in insertion order
    now,               \* the last reading of the clock
    rows,              \* App.rows
    per_expire_count,  \* App.per_expire_count
    view_rows,         \* App.view_rows, as indexes into rows
    mode_var,          \* App.mode_var
    last,              \* the last operation: its name, arguments and outcome
    input,             \* the arguments of the function under study
    output,            \* its result, once done
    done

store == <<tables, prints, now>>
gui == <<rows, per_expire_count, view_rows, mode_var>>
harness == <<input, output, done>>
vars == <<frontend, tables, prints, now, rows, per_expire_count, view_rows, mode_var,
          last, input, output, done>>

\* ------------------------------------------------------------------ inputs
\* record_print as the tests and the import call it
RecordInputs ==
    { Args(NomD, PrenomA, Ddn1, Exp2026, <<"@", " ">>, Null, Null, "printed"),
      Args(<<"D", " ">>, PrenomA, Ddn1, Exp2027, Null, Montant35, Null, "printed"),
      Args(NomDLower, PrenomA, Ddn2, Exp2026, Null, Null, <<"z">>, "simulated") }

\* name-only CSV files: a lower-case spelling, a blank line, a header with a
\* third column
CsvFiles ==
    { << <<NomDLower, <<" ", "a">> >> >>,
      << <<NomM, PrenomA>>, <<Empty, Empty>> >>,
      << <<<<"N">>, <<"P">>, <<"M">>>>, <<NomM, PrenomA>> >> }

NameFilters == {Empty}
Modes == {"tout", "a_imprimer", "deja"}

\* the clock readings of a run of record_print calls: <<prints, now>> after it
RECURSIVE RecordAll(_, _, _)
RecordAll(ps, t, calls) ==
    IF calls = << >> THEN {<<ps, t>>}
    ELSE UNION { RecordAll(record_print(ps, Head(calls), ts), ts, Tail(calls)) :
                 ts \in Ticks(t) }

\* the checked rows of the view whose expiration is the one entered, in the
\* order of the view (gui.py:383-388, 1077-1081)
RECURSIVE SelectedFrom(_, _, _, _)
SelectedFrom(rs, view, idxs, expiration) ==
    IF idxs = << >> THEN << >>
    ELSE LET r == rs[view[Head(idxs)]]
         IN (IF StripOrEmpty(r.Expire_le) = expiration THEN <<r>> ELSE << >>)
            \o SelectedFrom(rs, view, Tail(idxs), expiration)
Selected(rs, view, checked, expiration) ==
    SelectedFrom(rs, view, Ascending(checked), expiration)

\* no database file yet; the App window, when there is one, has loaded the
\* membership file (App.__init__, on_import)
Constructed ==
    /\ tables = FALSE
    /\ prints = << >>
    /\ now = 1
    /\ rows = GuiRows(Roster)
    /\ per_expire_count = EmptyLookup
    /\ view_rows = apply_filter(GuiRows(Roster), EmptyLookup, "tout", GuiDefaultExpire,
                                 Empty, Empty)
    /\ mode_var = "tout"
    /\ last = [op |-> "start", raised |-> FALSE]

Init ==
    /\ frontend \in {"cli", "gui"}
    /\ Constructed
    /\ input = << >>
    /\ output = << >>
    /\ done = FALSE

\* ------------------------------------------------------------------ db.py and imports.py, called directly
\* init_db (also the command `initdb`)
InitDb ==
    /\ frontend = "cli"
    /\ tables' = TRUE
    /\ prints' = init_db(prints)
    /\ last' = [op |-> "init_db", raised |-> FALSE]
    /\ UNCHANGED <<frontend, now, gui, harness>>

\* record_print; the INSERT raises on a store without the prints table
RecordPrint ==
    /\ frontend = "cli"
    /\ \E a \in RecordInputs :
        \/ /\ ~tables
           /\ last' = [op |-> "record_print", raised |-> TRUE]
           /\ UNCHANGED <<frontend, store, gui, harness>>
        \/ /\ tables
           /\ Len(prints) < MaxEvents
           /\ \E ts \in Ticks(now) :
                /\ prints' = record_print(prints, a, ts)
                /\ now' = ts
           /\ last' = [op |-> "record_print", raised |-> FALSE]
           /\ UNCHANGED <<frontend, tables, gui, harness>>

\* update_person_montant
UpdatePersonMontant ==
    /\ frontend = "cli"
    /\ \E nom \in {NomD, Empty}, montant \in {Empty} :
        \/ /\ nom # Empty /\ ~tables
           /\ last' = [op |-> "update_person_montant", raised |-> TRUE]
           /\ UNCHANGED <<frontend, store, gui, harness>>
        \/ /\ nom = Empty \/ tables
           /\ prints' = IF nom = Empty THEN prints
                         ELSE update_person_montant(prints, nom, PrenomA, montant)
           /\ last' = [op |-> "update_person_montant", raised |-> FALSE]
           /\ UNCHANGED <<frontend, tables, now, gui, harness>>

\* import_already_printed_csv
ImportAlreadyPrintedCsv ==
    /\ frontend = "cli"
    /\ \E csv \in CsvFiles \cup {NoFile},
       lookup \in {EmptyLookup, build_ddn_lookup_from_rows(rows)} :
        \E o \in import_already_printed_csv(tables, prints, now, csv, Exp2026, lookup) :
            /\ Len(o.prints) <= MaxEvents
            /\ prints' = o.prints
            /\ now' = o.now
            /\ last' = [op |-> "import_already_printed_csv", raised |-> o.raised,
                        with_lookup |-> lookup # EmptyLookup,
                        imported |-> o.imported, skipped |-> o.skipped]
            /\ UNCHANGED <<frontend, tables, gui, harness>>

\* ------------------------------------------------------------------ main.py
\* the records of the file whose expiration is the one asked for (main.py:48)
RECURSIVE WithExpiration(_, _)
WithExpiration(rs, expiration) ==
    IF rs = << >> THEN << >>
    ELSE (IF StripOrEmpty(Head(rs).Expire_le) = expiration THEN <<Head(rs)>> ELSE << >>)
         \o WithExpiration(Tail(rs), expiration)

\* the records kept for generation (main.py:58-68)
RECURSIVE ToGenerate(_, _, _)
ToGenerate(ps, rs, force) ==
    IF rs = << >> THEN << >>
    ELSE LET r == Head(rs)
         IN (IF force \/ ~already_printed(ps, r.Nom, r.Prenom, r.Date_de_naissance,
                                          r.Expire_le)
             THEN <<r>> ELSE << >>) \o ToGenerate(ps, Tail(rs), force)

\* the record_print call of simulate: the label text is the fifth positional
\* argument (main.py:84-92)
SimulateArgs(r) ==
    Args(r.Nom, r.Prenom, r.Date_de_naissance, r.Expire_le, ZplContent(r), Null, Null,
         "simulated")
RECURSIVE SimulateCalls(_)
SimulateCalls(rs) ==
    IF rs = << >> THEN << >> ELSE <<SimulateArgs(Head(rs))>> \o SimulateCalls(Tail(rs))

\* the command `simulate` on the membership file
CliSimulate ==
    /\ frontend = "cli"
    /\ \E force \in BOOLEAN, log \in BOOLEAN, expiration \in Expirations :
        LET df == WithExpiration(Roster, expiration)
            a_generer == ToGenerate(prints, df, force)
            crash == df # << >> /\ ~tables /\ (~force \/ log)
            quiet == df = << >> \/ (tables /\ a_generer = << >>) \/ ~log
        IN \/ /\ crash
              /\ last' = [op |-> "simulate", raised |-> TRUE, force |-> force,
                          generated |-> 0]
              /\ UNCHANGED <<frontend, store, gui, harness>>
           \/ /\ ~crash /\ quiet
              /\ last' = [op |-> "simulate", raised |-> FALSE, force |-> force,
                          generated |-> IF df = << >> THEN 0 ELSE Len(a_generer)]
              /\ UNCHANGED <<frontend, store, gui, harness>>
           \/ /\ ~crash /\ ~quiet
              /\ Len(prints) + Len(a_generer) <= MaxEvents
              /\ \E o \in RecordAll(prints, now, SimulateCalls(a_generer)) :
                    prints' = o[1] /\ now' = o[2]
              /\ last' = [op |-> "simulate", raised |-> FALSE, force |-> force,
                          generated |-> Len(a_generer)]
              /\ UNCHANGED <<frontend, tables, gui, harness>>

\* ------------------------------------------------------------------ gui.py handlers
\* refresh_from_db_stats then apply_filter on the store as the handler leaves it
RefreshAndFilter(tb, ps, mode, exp, nom, prenom) ==
    \E o \in refresh_from_db_stats(tb, ps, rows) :
        /\ rows' = o[1]
        /\ per_expire_count' = o[2]
        /\ view_rows' = apply_filter(o[1], o[2], mode, exp, nom, prenom)

\* the record_print call of on_print: the label text is the sixth positional
\* argument (gui.py:1100-1109)
OnPrintArgs(r) ==
    Args(r.Nom, r.Prenom, r.Date_de_naissance, r.Expire_le, r.Email, ZplContent(r), Null,
         "printed")
RECURSIVE OnPrintCalls(_)
OnPrintCalls(rs) ==
    IF rs = << >> THEN << >> ELSE <<OnPrintArgs(Head(rs))>> \o OnPrintCalls(Tail(rs))

\* on_print: `checked` is the selection made in the view, `io_ok` whether
\* the label files could be written
OnPrint ==
    /\ frontend = "gui"
    /\ \E exp \in Expirations, nom \in NameFilters, prenom \in NameFilters,
       checked \in SUBSET (1..Len(view_rows)), io_ok \in BOOLEAN :
        LET selected == Selected(rows, view_rows, checked, Strip(exp)) IN
        \/ /\ selected = << >>
           /\ io_ok
           /\ last' = [op |-> "on_print", raised |-> FALSE, recorded |-> 0]
           /\ UNCHANGED <<frontend, store, gui, harness>>
        \/ /\ selected # << >>
           /\ ~io_ok \/ ~tables
           /\ last' = [op |-> "on_print", raised |-> TRUE, recorded |-> 0]
           /\ UNCHANGED <<frontend, store, gui, harness>>
        \/ /\ selected # << >>
           /\ io_ok /\ tables
           /\ Len(prints) + Len(selected) <= MaxGuiEvents
           /\ \E o \in RecordAll(prints, now, OnPrintCalls(selected)) :
                 prints' = o[1] /\ now' = o[2]
           /\ RefreshAndFilter(tables, prints', mode_var, exp, nom, prenom)
           /\ last' = [op |-> "on_print", raised |-> FALSE, recorded |-> Len(selected)]
           /\ UNCHANGED <<frontend, tables, mode_var, harness>>

\* the record_print call of on_print_ql570 (gui.py:428-437)
Ql570Args(r) ==
    Args(StripOrEmpty(r.Nom), StripOrEmpty(r.Prenom), StripOrEmpty(r.Date_de_naissance),
         StripOrEmpty(r.Expire_le), StripOrEmpty(r.Email), Null, Null, "printed")
RECURSIVE Ql570Calls(_)
Ql570Calls(rs) ==
    IF rs = << >> THEN << >> ELSE <<Ql570Args(Head(rs))>> \o Ql570Calls(Tail(rs))

\* on_print_ql570: the printer fails on the fail_at-th label, 0 for never.
\* One connection, used as a context manager, spans the loop: an exception
\* rolls back the inserts made so far
OnPrintQl570 ==
    /\ frontend = "gui"
    /\ \E exp \in Expirations, nom \in NameFilters, prenom \in NameFilters,
       checked \in SUBSET (1..Len(view_rows)), fail_at \in 0..Len(Roster) :
        LET selected == Selected(rows, view_rows, checked, Strip(exp))
            printer_fails == fail_at \in 1..Len(selected)
        IN
        \/ /\ selected = << >>
           /\ fail_at = 0
           /\ last' = [op |-> "on_print_ql570", raised |-> FALSE, sent |-> 0, recorded |-> 0]
           /\ UNCHANGED <<frontend, store, gui, harness>>
        \/ /\ selected # << >>
           /\ printer_fails \/ ~tables
           /\ last' = [op |-> "on_print_ql570", raised |-> TRUE,
                       sent |-> IF fail_at = 1 THEN 0
                                ELSE IF ~tables THEN 1 ELSE fail_at - 1,
                       recorded |-> 0]
           /\ UNCHANGED <<frontend, store, gui, harness>>
        \/ /\ selected # << >>
           /\ fail_at = 0 /\ tables
           /\ Len(prints) + Len(selected) <= MaxGuiEvents
           /\ \E o \in RecordAll(prints, now, Ql570Calls(selected)) :
                 prints' = o[1] /\ now' = o[2]
           /\ RefreshAndFilter(tables, prints', mode_var, exp, nom, prenom)
           /\ last' = [op |-> "on_print_ql570", raised |-> FALSE,
                       sent |-> Len(selected), recorded |-> Len(selected)]
           /\ UNCHANGED <<frontend, tables, mode_var, harness>>

\* on_refresh
OnRefresh ==
    /\ frontend = "gui"
    /\ \E exp \in Expirations, nom \in NameFilters, prenom \in NameFilters :
        /\ RefreshAndFilter(tables, prints, mode_var, exp, nom, prenom)
        /\ last' = [op |-> "on_refresh", raised |-> FALSE]
        /\ UNCHANGED <<frontend, store, mode_var, harness>>

\* the mode selector: _on_mode_change sets mode_var and calls apply_filter
OnModeChange ==
    /\ frontend = "gui"
    /\ \E mode \in Modes, exp \in Expirations, nom \in NameFilters, prenom \in NameFilters :
        /\ mode_var' = mode
        /\ view_rows' = apply_filter(rows, per_expire_count, mode, exp, nom, prenom)
        /\ last' = [op |-> "on_mode_change", raised |-> FALSE]
        /\ UNCHANGED <<frontend, store, rows, per_expire_count, harness>>

\* on_init_db, confirmed: init_db, the import of deja_imprimes.csv when the
\* file exists (an error of the import is shown and the handler goes on),
\* then the refresh
OnInitDb ==
    /\ frontend = "gui"
    /\ \E exp \in Expirations, nom \in NameFilters, prenom \in NameFilters,
       csv \in CsvFiles \cup {NoFile} :
        \E o \in import_already_printed_csv(TRUE, init_db(prints), now, csv, exp,
                                             build_ddn_lookup_from_rows(rows)) :
            /\ Len(o.prints) <= MaxGuiEvents
            /\ tables' = TRUE
            /\ prints' = o.prints
            /\ now' = o.now
            /\ RefreshAndFilter(TRUE, o.prints, mode_var, exp, nom, prenom)
            /\ last' = [op |-> "on_init_db", raised |-> o.raised,
                        with_lookup |-> TRUE,
                        imported |-> o.imported, skipped |-> o.skipped]
            /\ UNCHANGED <<frontend, mode_var, harness>>

\* on_reset_db, confirmed: the database file is deleted, then init_db
OnResetDb ==
    /\ frontend = "gui"
    /\ \E exp \in Expirations, nom \in NameFilters, prenom \in NameFilters :
        /\ tables' = TRUE
        /\ prints' = init_db(<< >>)
        /\ RefreshAndFilter(TRUE, init_db(<< >>), mode_var, exp, nom, prenom)
        /\ last' = [op |-> "on_reset_db", raised |-> FALSE]
        /\ UNCHANGED <<frontend, now, mode_var, harness>>

\* ------------------------------------------------------------------ reads
\* the read operations, called on the store as it is; `empty` tells whether
\* the result was the empty one (False, [], {} or None)
AlreadyPrinted ==
    /\ frontend = "cli"
    /\ \E a \in RecordInputs :
        /\ last' = [op |-> "already_printed", raised |-> ~tables,
                    empty |-> tables /\ ~already_printed(prints, a.nom, a.prenom, a.ddn,
                                                         a.expire)]
        /\ UNCHANGED <<frontend, store, gui, harness>>

PersonStats ==
    /\ frontend = "cli"
    /\ \E nom \in {Null, NomD}, prenom \in {Null, PrenomA} :
        /\ last' = [op |-> "person_stats", raised |-> ~tables,
                    empty |-> tables /\ person_stats(prints, nom, prenom) = {}]
        /\ UNCHANGED <<frontend, store, gui, harness>>

ListPrints ==
    /\ frontend = "cli"
    /\ \E expire \in {Null, Exp2026} :
        /\ last' = [op |-> "list_prints", raised |-> ~tables,
                    empty |-> tables /\ list_prints(prints, expire) = {<< >>}]
        /\ UNCHANGED <<frontend, store, gui, harness>>

\* the query is inside try/except Exception: a store without the table gives {}
LoadLatestExpirationByPerson ==
    /\ frontend = "cli"
    /\ \E o \in (IF tables THEN load_latest_expiration_by_person(prints) ELSE {EmptyLookup}) :
        /\ last' = [op |-> "load_latest_expiration_by_person", raised |-> FALSE,
                    empty |-> o = EmptyLookup]
        /\ UNCHANGED <<frontend, store, gui, harness>>

\* the queries are inside try/except sqlite3.OperationalError: None without the table
FetchLatestContact ==
    /\ frontend = "cli"
    /\ \E nom \in {NomD, NomM}, ddn \in {Null, Ddn1} :
        \E o \in (IF tables THEN fetch_latest_contact(prints, nom, PrenomA, ddn)
                   ELSE {NoContact}) :
            /\ last' = [op |-> "fetch_latest_contact", raised |-> FALSE,
                        empty |-> o = NoContact]
            /\ UNCHANGED <<frontend, store, gui, harness>>


\* ------------------------------------------------------------------ the program
Next ==
    \/ InitDb
    \/ RecordPrint
    \/ UpdatePersonMontant
    \/ ImportAlreadyPrintedCsv
    \/ CliSimulate
    \/ OnPrint
    \/ OnPrintQl570
    \/ OnRefresh
    \/ OnModeChange
    \/ OnInitDb
    \/ OnResetDb
    \/ AlreadyPrinted
    \/ PersonStats
    \/ ListPrints
    \/ LoadLatestExpirationByPerson
    \/ FetchLatestContact

Spec == Init /\ [][Next]_vars

\* ------------------------------------------------------------------ the pure functions
\* the sequences over S of length at most n
SeqsUpTo(S, n) == UNION {[1..k -> S] : k \in 0..n}

Program == <<frontend, tables, prints, now, rows, per_expire_count, view_rows, mode_var, last>>

\* build_ddn_lookup_from_rows applied to a list of records
DdnRecords ==
    [Nom : {NomD, NomDLower, Empty}, Prenom : {PrenomA, Empty},
     Date_de_naissance : {Ddn1, <<"1", " ">>, Ddn2, Empty}]

InitDdn ==
    /\ frontend = "none"
    /\ Constructed
    /\ input \in SeqsUpTo(DdnRecords, MaxDdnRows)
    /\ output = << >>
    /\ done = FALSE

BuildDdnLookup ==
    /\ ~done
    /\ output' = build_ddn_lookup_from_rows(input)
    /\ done' = TRUE
    /\ UNCHANGED <<Program, input>>

SpecDdn == InitDdn /\ [][BuildDdnLookup]_vars

\* compute_validation_status applied to a key, two lookups, a configured
\* expiration and an allowlist
KeyDA == IdentityKey(NomD, PrenomA)
KeyMA == IdentityKey(NomM, PrenomA)
Iso2026 == <<"2026", "-", "12", "-", "31">>
DashDmy2026 == <<"31", "-", "12", "-", "2026">>
SlashYmd2026 == <<"2026", "/", "12", "/", "31">>
StatusKeys == {NoIdentity, KeyDA, KeyMA, IdentityKey(NomD, Empty)}
StatusDbLookups ==
    {EmptyLookup} \cup
    { [k \in {KeyDA, NoIdentity} |-> [expire |-> e, printed_at |-> 1]] :
        e \in {Exp2026, Exp2027, Iso2026, Empty, <<"x">>} }
StatusValidationLookups ==
    { EmptyLookup,
      [k \in {KeyDA, NoIdentity} |->
          [nom |-> k[1], prenom |-> k[2], valide_par |-> <<"J">>, montant |-> Montant35]],
      [k \in {KeyMA} |->
          [nom |-> k[1], prenom |-> k[2], valide_par |-> Empty, montant |-> Empty]] }
Allowlists == {{}, {<<"J">>}, {<<"K">>}}
ValidatedBy == {Empty, <<"J">>, <<"K">>}
StatusInputs ==
    [key : StatusKeys, db_lookup : StatusDbLookups,
     validation_lookup : StatusValidationLookups,
     default_expire : {Exp2026, Iso2026, DashDmy2026, SlashYmd2026,
                       <<" ">> \o Exp2026, <<"x">>, <<" ", "x">>},
     validators : Allowlists]

InitStatus ==
    /\ frontend = "none"
    /\ Constructed
    /\ input \in StatusInputs
    /\ output = << >>
    /\ done = FALSE

ComputeValidationStatus ==
    /\ ~done
    /\ output' = <<compute_validation_status(input.key, input.db_lookup,
                       input.validation_lookup, input.default_expire, input.validators)>>
    /\ done' = TRUE
    /\ UNCHANGED <<Program, input>>

SpecStatus == InitStatus /\ [][ComputeValidationStatus]_vars

\* apply_validation_updates applied to a roster and a batch, then to its own
\* result and the same batch; `steps[k + 1]` is the result of the loop once
\* it has gone through the first k updates
MergeRows ==
    [Nom : {NomD, NomDLower}, Prenom : {PrenomA}, Date_de_naissance : {Ddn1, Empty},
     Expire_le : {Exp2026, Empty}, Email : {Empty}, Montant : {Empty},
     ErreurValide : {Empty, FlagTrue, <<"oui">>}, Derniere : {NoTime}, Compteur : {0}]
MergeUpdates ==
    [Nom : {NomDLower, Empty}, Prenom : {PrenomA}, Date_de_naissance : {Ddn2, Empty},
     Expire_le : {Exp2026, Exp2027, Empty}, Email : {Null}, Montant : {Montant35},
     ErreurValide : {Empty}]
    \cup {[Nom |-> Empty, Prenom |-> <<" ">>, Date_de_naissance |-> Ddn1,
            Expire_le |-> Exp2027, Email |-> Null, Montant |-> Montant35,
            ErreurValide |-> Empty]}

InitMerge ==
    /\ frontend = "none"
    /\ Constructed
    /\ input \in [rows : SeqsUpTo(MergeRows, MaxMergeRows),
                   updates : SeqsUpTo(MergeUpdates, MaxMergeUpdates)]
    /\ output = << >>
    /\ done = FALSE

ApplyValidationUpdatesTwice ==
    /\ ~done
    /\ output' = LET first == apply_validation_updates(input.rows, input.updates)
                 IN [first |-> first,
                     second |-> apply_validation_updates(first[1], input.updates),
                     steps |-> [k \in 1..(Len(input.updates) + 1) |->
                                  apply_validation_updates(input.rows,
                                      SubSeq(input.updates, 1, k - 1))]]
    /\ done' = TRUE
    /\ UNCHANGED <<Program, input>>

SpecMerge == InitMerge /\ [][ApplyValidationUpdatesTwice]_vars

\* apply_validation_updates on rosters and batches that differ in their
\* dates of birth
MaxDdnMergeRows == 2
MaxDdnMergeUpdates == 3
DdnMergeRows ==
    [Nom : {NomD, NomDLower}, Prenom : {PrenomA}, Date_de_naissance : {Ddn1, Empty},
     Expire_le : {Exp2026}, Email : {Empty}, Montant : {Empty},
     ErreurValide : {Empty}, Derniere : {NoTime}, Compteur : {0}]
DdnMergeUpdates ==
    [Nom : {NomDLower, NomM}, Prenom : {PrenomA}, Date_de_naissance : {Ddn1, Ddn2, Empty},
     Expire_le : {Empty}, Email : {Null}, Montant : {Montant35}, ErreurValide : {Empty}]

InitMergeDdn ==
    /\ frontend = "none"
    /\ Constructed
    /\ input \in [rows : SeqsUpTo(DdnMergeRows, MaxDdnMergeRows),
                   updates : SeqsUpTo(DdnMergeUpdates, MaxDdnMergeUpdates)]
    /\ output = << >>
    /\ done = FALSE

SpecMergeDdn == InitMergeDdn /\ [][ApplyValidationUpdatesTwice]_vars

\* normalize_name applied to a text, then to its own result
NameChars == {"a", "A", "e'", CombiningAcute, " ", "\t", "-"}

InitNorm ==
    /\ frontend = "none"
    /\ Constructed
    /\ input \in SeqsUpTo(NameChars, MaxNameLen) \cup {Null}
    /\ output = << >>
    /\ done = FALSE

NormalizeNameTwice ==
    /\ ~done
    /\ output' = [once |-> normalize_name(input),
                  twice |-> normalize_name(normalize_name(input))]
    /\ done' = TRUE
    /\ UNCHANGED <<Program, input>>

SpecNorm == InitNorm /\ [][NormalizeNameTwice]_vars

\* parse_validation_three_line_file applied to the lines of a file and
\* load_validation_export applied to the records of an export and the rows
\* of the latest pre-inscription file (none when there is no such file)
ValidationLines ==
    { <<"D", "E", " ", "E", "d">>,
      <<"Paye", " ", "par", " ", "A", "D", " ", "E", "m">>,
      <<"Montant", " ", ":", " ", "4", "5", ",", "5", " ", "EUR">>,
      <<"Paye", " ", "Montant", " ", ":", " ", "3", "0">>,
      <<"Info">> }
ExportRecords ==
    [nom : {NomDLower, NomM}, prenom : {PrenomA}, valide_par : {Empty},
     montant : {<<"4", "5">>, Empty, <<"4", "5", ",", "5">>, <<"x">>}]
PreinscriptionRows ==
    [nom : {NomD, NomM}, prenom : {PrenomA},
     montant_tarif : {<<"3", "0", ",", "5", "0">>, <<"0">>, <<"1", ".", "0", "0", "5">>,
                      <<"x">>}]

InitValidation ==
    /\ frontend = "none"
    /\ Constructed
    /\ input \in [kind : {"lines"}, lines : SeqsUpTo(ValidationLines, MaxLines)]
                 \cup [kind : {"export"}, records : SeqsUpTo(ExportRecords, MaxExportRows),
                       pre : SeqsUpTo(PreinscriptionRows, MaxExportRows)]
    /\ output = << >>
    /\ done = FALSE

ParseValidationThreeLineFile ==
    /\ ~done
    /\ input.kind = "lines"
    /\ output' = parse_validation_three_line_file(input.lines)
    /\ done' = TRUE
    /\ UNCHANGED <<Program, input>>

LoadValidationExport ==
    /\ ~done
    /\ input.kind = "export"
    /\ output' = [rows |-> load_validation_export(input.records, input.pre)]
    /\ done' = TRUE
    /\ UNCHANGED <<Program, input>>

SpecValidation ==
    InitValidation /\ [][ParseValidationThreeLineFile \/ LoadValidationExport]_vars

\* _split_compound_last_name applied to a surname of one or two tokens and
\* a given-name phrase of up to MaxTokens tokens: upper-case tokens, a usual
\* first name, capitalised tokens, hyphenated tokens
SplitTokens ==
    { <<"M", "A">>, <<"A", "D", "A", "M">>, <<"E", "d">>,
      <<"D", "A", "-", "E", "M">>, <<"E", "d", "-", "A", "d">> }
InitSplit ==
    /\ frontend = "none"
    /\ Constructed
    /\ input \in [last_name : {<<"D", "E">>, <<"D", "E", " ", "M", "A">>},
                  first_name : {Join(ts) : ts \in SeqsUpTo(SplitTokens, MaxTokens)}]
    /\ output = << >>
    /\ done = FALSE

SplitCompoundLastName ==
    /\ ~done
    /\ output' = _split_compound_last_name(input.last_name, input.first_name)
    /\ done' = TRUE
    /\ UNCHANGED <<Program, input>>

SpecSplit == InitSplit /\ [][SplitCompoundLastName]_vars

\* init_db run MaxInitRuns times on a store: a missing database, or one made
\* by an older schema, with or without the email and the amount column and
\* the unique index, that holds up to MaxOldRows events
OldColumns == {(PrintsColumns \ {"email", "montant"}) \cup extra :
                 extra \in SUBSET {"email", "montant"}}
OldEvents(columns) ==
    {[c \in columns |->
        CASE c = "nom" -> nom [] c = "prenom" -> PrenomA [] c = "ddn" -> Ddn1
          [] c = "expire" -> Exp2026 [] c = "email" -> Email1 [] c = "montant" -> Montant35
          [] c = "zpl_checksum" -> Null [] c = "status" -> status
          [] c = "printed_at" -> <<"t">>] :
      nom \in {NomD, NomM}, status \in {<<"printed">>, <<"simulated">>}}
OldStores ==
    {[tables |-> {}, columns |-> {}, rows |-> << >>, indexes |-> {}, views |-> {}]}
    \cup UNION {[tables : {{"prints"}}, columns : {columns},
                 rows : SeqsUpTo(OldEvents(columns), MaxOldRows),
                 indexes : {{}, {"ux_prints_person_expire"}}, views : {{}}] :
                columns \in OldColumns}
InitInitDb ==
    /\ frontend = "none"
    /\ Constructed
    /\ input \in OldStores
    /\ output = << >>
    /\ done = FALSE

InitDbRun ==
    /\ Len(output) < MaxInitRuns
    /\ output' = Append(output,
                    init_db_schema(IF output = << >> THEN input ELSE output[Len(output)]))
    /\ done' = TRUE
    /\ UNCHANGED <<Program, input>>

SpecInitDb == InitInitDb /\ [][InitDbRun]_vars

\* The window opened on the store the commands have written: gui.py and
\* main.py share data/app.db (DB_PATH), so the ledger the window reads may
\* hold the events of `simulate` and of a name-only import.
AppOnStore ==
    /\ frontend = "cli"
    /\ frontend' = "gui"
    /\ last' = [op |-> "app", raised |-> FALSE]
    /\ UNCHANGED <<store, gui, harness>>

InitClassify ==
    /\ frontend = "cli"
    /\ Constructed
    /\ input = << >>
    /\ output = << >>
    /\ done = FALSE

SpecClassify ==
    InitClassify /\ [][InitDb \/ ImportAlreadyPrintedCsv \/ CliSimulate \/ AppOnStore
                          \/ OnRefresh \/ OnModeChange]_vars

\* import_already_printed_csv on an initialised, empty store and a file of up
\* to MaxCsvLines lines: a header with a third column, a data row with a third
\* column, a data row of two columns, a row of two empty columns
HeaderLine == << <<"N">>, <<"P">>, <<"M">> >>
CsvLines ==
    { HeaderLine, <<NomM, PrenomA, Montant35>>, <<NomDLower, <<" ", "a">> >>,
      <<Empty, Empty>> }
InitImport ==
    /\ frontend = "none"
    /\ Constructed
    /\ input \in SeqsUpTo(CsvLines, MaxCsvLines)
    /\ output = << >>
    /\ done = FALSE

ImportCsvFile ==
    /\ ~done
    /\ \E o \in import_already_printed_csv(TRUE, init_db(<< >>), 1, input, Exp2026,
                                           EmptyLookup) :
          output' = o
    /\ done' = TRUE
    /\ UNCHANGED <<Program, input>>

SpecImport == InitImport /\ [][ImportCsvFile]_vars

\* the command `simulate`, run again and again on one membership file against
\* one store: `runs` keeps, for every run, its options, the ledger it found
\* and what it generated
MaxSimRows == 2
MaxSimRuns == 2
SimRows == {Roster[1], Roster[2], [Roster[2] EXCEPT !.Expire_le = Exp2027]}
SimLedgers ==
    {<< >>,
     <<NewEvent(Args(NomD, PrenomA, Ddn1, Exp2026, Null, Null, Null, "printed"), 1)>>}
simulate(tb, ps, t, fichier, expiration, force, log) ==
    LET df == WithExpiration(fichier, expiration)
        a_generer == ToGenerate(ps, df, force)
    IN IF df # << >> /\ ~tb /\ (~force \/ log)
       THEN {[raised |-> TRUE, prints |-> ps, now |-> t, generated |-> << >>]}
       ELSE IF df = << >> \/ (tb /\ a_generer = << >>)
       THEN {[raised |-> FALSE, prints |-> ps, now |-> t, generated |-> << >>]}
       ELSE IF ~log
       THEN {[raised |-> FALSE, prints |-> ps, now |-> t, generated |-> a_generer]}
       ELSE {[raised |-> FALSE, prints |-> o[1], now |-> o[2], generated |-> a_generer] :
                o \in RecordAll(ps, t, SimulateCalls(a_generer))}

InitSimulate ==
    /\ frontend = "none"
    /\ Constructed
    /\ input \in [fichier : SeqsUpTo(SimRows, MaxSimRows), expiration : {Exp2026}]
    /\ output \in {[prints |-> ps, now |-> 1, runs |-> << >>] : ps \in SimLedgers}
    /\ done = FALSE

SimulateRun ==
    /\ Len(output.runs) < MaxSimRuns
    /\ \E force \in BOOLEAN, log \in BOOLEAN :
         \E o \in simulate(TRUE, output.prints, output.now, input.fichier,
                            input.expiration, force, log) :
            output' = [prints |-> o.prints, now |-> o.now,
                       runs |-> Append(output.runs,
                                   [force |-> force, log |-> log, raised |-> o.raised,
                                    before |-> output.prints, after |-> o.prints,
                                    generated |-> o.generated])]
    /\ UNCHANGED <<Program, input, done>>

SpecSimulate == InitSimulate /\ [][SimulateRun]_vars

C2_RecordPrintAppendsOne ==
    [][ (last'.op = "record_print" /\ ~last'.raised) =>
          /\ Len(prints') = Len(prints) + 1
          /\ SubSeq(prints', 1, Len(prints)) = prints
          /\ \E a \in RecordInputs :
                LET e == prints'[Len(prints')]
                    same(ps) == {i \in 1..Len(ps) :
                                   <<ps[i].nom, ps[i].prenom, ps[i].ddn, ps[i].expire>>
                                     = <<Strip(a.nom), Strip(a.prenom), Strip(a.ddn),
                                         Strip(a.expire)>>}
                IN /\ <<e.nom, e.prenom, e.ddn, e.expire, e.status>>
                        = <<Strip(a.nom), Strip(a.prenom), Strip(a.ddn), Strip(a.expire),
                            a.status>>
                   /\ e.printed_at = now'
                   /\ Cardinality(same(prints')) = Cardinality(same(prints)) + 1 ]_vars

\* a successful record_print whose tuple was already in the ledger twice
C2_Witness ==
    /\ last.op = "record_print" /\ ~last.raised
    /\ Len(prints) = 3
    /\ SameTuple(prints[1], prints[3]) /\ SameTuple(prints[2], prints[3])

\* C3: the aggregates count printed events only.  The per-person view has one
\* row per stored (surname, given name, date of birth) group, with the number
\* of printed events of the group and the greatest timestamp among them
\* (none when the group holds simulated events only); the per-expiration
\* query has one row per (surname, given name, date of birth, expiration)
\* group with its number of printed events; the count map of the GUI holds,
\* after a refresh, the printed count of a stored group under each key.
C3_AggregatesCountPrinted ==
    LET printed == {i \in 1..Len(prints) : prints[i].status = "printed"}
        g3(i) == <<prints[i].nom, prints[i].prenom, prints[i].ddn>>
        g4(i) == <<prints[i].nom, prints[i].prenom, prints[i].ddn, prints[i].expire>>
        in3(g) == {i \in printed : g3(i) = g}
        in4(g) == {i \in printed : g4(i) = g}
    IN /\ {<<r.nom, r.prenom, r.ddn>> : r \in v_person_stats(prints)}
            = {g3(i) : i \in 1..Len(prints)}
       /\ Cardinality(v_person_stats(prints)) = Cardinality({g3(i) : i \in 1..Len(prints)})
       /\ \A r \in v_person_stats(prints) :
             /\ r.cnt = Cardinality(in3(<<r.nom, r.prenom, r.ddn>>))
             /\ r.last_print =
                  IF in3(<<r.nom, r.prenom, r.ddn>>) = {} THEN NoTime
                  ELSE Max({prints[i].printed_at : i \in in3(<<r.nom, r.prenom, r.ddn>>)})
       /\ person_stats(prints, Null, Null) = v_person_stats(prints)
       /\ {<<r.nom, r.prenom, r.ddn, r.expire>> : r \in per_expire_rows(prints)}
            = {g4(i) : i \in 1..Len(prints)}
       /\ \A r \in per_expire_rows(prints) :
             r.cnt_exp = Cardinality(in4(<<r.nom, r.prenom, r.ddn, r.expire>>))
       /\ last.op = "on_refresh" =>
             \A k \in DOMAIN per_expire_count :
                \E i \in 1..Len(prints) :
                   /\ GuiKey4(prints[i].nom, prints[i].prenom, prints[i].ddn,
                              prints[i].expire) = k
                   /\ per_expire_count[k] = Cardinality(in4(g4(i)))

\* a group holding a printed and a simulated event, and a group holding
\* simulated events only
C3_Witness ==
    /\ \E i, j \in 1..Len(prints) :
          /\ <<prints[i].nom, prints[i].prenom, prints[i].ddn>>
               = <<prints[j].nom, prints[j].prenom, prints[j].ddn>>
          /\ prints[i].status = "printed" /\ prints[j].status = "simulated"
    /\ \E r \in v_person_stats(prints) : r.cnt = 0 /\ r.last_print = NoTime
    /\ \E r \in v_person_stats(prints) : r.cnt = 1

\* C4, as stated: fetch_latest_contact sources each field independently.
\* Among the events of the person (of the given date of birth when one is
\* given) the email is that of the most recent event whose email is not
\* empty and the amount is that of the most recent event whose amount is not
\* empty; the result is none exactly when no event matches.  Stated for the
\* calls where no two matching events bear the same timestamp, so that "most
\* recent" names one event.
C4_EachFieldFromItsLatest ==
    \A nom \in {NomD, NomM}, ddn \in {Null, Ddn1} :
       \A o \in fetch_latest_contact(prints, nom, PrenomA, ddn) :
          LET base == {i \in 1..Len(prints) :
                         /\ prints[i].nom = nom /\ prints[i].prenom = PrenomA
                         /\ ddn # Null => prints[i].ddn = ddn}
              recent(S) == {i \in S : \A j \in S : prints[j].printed_at <= prints[i].printed_at}
              emails == {i \in base : prints[i].email # Empty}
              amounts == {i \in base : prints[i].montant # Empty}
              ordered == \A i, j \in base :
                            i # j => prints[i].printed_at # prints[j].printed_at
          IN /\ o = NoContact <=> base = {}
             /\ (base # {} /\ ordered) =>
                  /\ IF emails = {} THEN o.email = Empty
                     ELSE \E i \in recent(emails) : o.email = prints[i].email
                  /\ IF amounts = {} THEN o.montant = Empty
                     ELSE \E i \in recent(amounts) : o.montant = prints[i].montant

\* C4, amended: the email is that of the most recent matching event whose
\* email is not empty (empty when there is none); the amount is that of the
\* most recent matching event, empty when that event carries no amount; the
\* result is none exactly when no event matches.
C4_AmountFromLatestEvent ==
    \A nom \in {NomD, NomM}, ddn \in {Null, Ddn1} :
       \A o \in fetch_latest_contact(prints, nom, PrenomA, ddn) :
          LET base == {i \in 1..Len(prints) :
                         /\ prints[i].nom = nom /\ prints[i].prenom = PrenomA
                         /\ ddn # Null => prints[i].ddn = ddn}
              recent(S) == {i \in S : \A j \in S : prints[j].printed_at <= prints[i].printed_at}
              emails == {i \in base : prints[i].email # Empty}
          IN /\ o = NoContact <=> base = {}
             /\ base # {} =>
                  /\ IF emails = {} THEN o.email = Empty
                     ELSE \E i \in recent(emails) : o.email = prints[i].email
                  /\ \E i \in recent(base) : o.montant = prints[i].montant

\* a call whose person has an older event with an email and an amount and a
\* strictly newer event with neither
C4_Witness ==
    /\ last.op = "fetch_latest_contact" /\ ~last.empty
    /\ \E i, j \in 1..Len(prints) :
          /\ prints[i].nom = NomD /\ prints[j].nom = NomD
          /\ prints[i].printed_at < prints[j].printed_at
          /\ prints[i].montant # Empty /\ prints[j].montant = Empty
          /\ \A k \in 1..Len(prints) : prints[k].printed_at <= prints[j].printed_at
    /\ \E i, j \in 1..Len(prints) :
          /\ prints[i].nom = NomD /\ prints[j].nom = NomD
          /\ prints[i].printed_at <= prints[j].printed_at
          /\ prints[i].email # Empty /\ prints[j].email = Empty

\* C5: on a store whose schema was never initialized, every read operation
\* (per-person stats, latest expiration per person, latest contact,
\* already-printed check, listing) returns its empty result without
\* raising, and record_print raises and records nothing.
C5_UninitializedStoreDegrades ==
    /\ (~tables /\ last.op \in {"person_stats", "load_latest_expiration_by_person",
                                "fetch_latest_contact", "already_printed",
                                "list_prints"})
         => (~last.raised /\ last.empty)
    /\ (~tables /\ last.op = "record_print") => (last.raised /\ prints = << >>)

C9_LatestExpirationFollowsLedger ==
    \A o \in load_latest_expiration_by_person(prints) :
       LET key(i) == <<normalize_name(prints[i].nom), normalize_name(prints[i].prenom)>>
       IN /\ DOMAIN o = {key(i) : i \in 1..Len(prints)} \ {NoIdentity}
          /\ \A k \in DOMAIN o :
                \E i \in 1..Len(prints) :
                   /\ key(i) = k
                   /\ \A j \in 1..Len(prints) :
                         key(j) = k => prints[j].printed_at <= prints[i].printed_at
                   /\ o[k].expire = prints[i].expire
                   /\ o[k].printed_at = prints[i].printed_at

\* a call on a ledger where a person has two events of different expirations
\* and timestamps, after record_print calls
C9_Witness ==
    /\ last.op = "load_latest_expiration_by_person" /\ ~last.empty
    /\ \E i, j \in 1..Len(prints) :
          /\ normalize_name(prints[i].nom) = normalize_name(prints[j].nom)
          /\ prints[i].printed_at < prints[j].printed_at
          /\ prints[i].expire # prints[j].expire
    /\ \E i, j \in 1..Len(prints) :
          normalize_name(prints[i].nom) # normalize_name(prints[j].nom)

\* C6: build_ddn_lookup_from_rows has one key per identity occurring in the
\* records; the key maps to the date of birth when exactly one distinct
\* non-empty date of birth was observed for the identity and to the unknown
\* marker when none or several were; a record whose surname and given name
\* are both empty creates no key and contributes to none.
C6_DdnLookupResolution ==
    done =>
       LET named == {i \in 1..Len(input) :
                       normalize_name(input[i].Nom) # Empty
                         \/ normalize_name(input[i].Prenom) # Empty}
           key(i) == <<Lower(normalize_name(input[i].Nom)),
                       Lower(normalize_name(input[i].Prenom))>>
           observed(k) == {Strip(input[i].Date_de_naissance) :
                             i \in {j \in named : key(j) = k}} \ {Empty}
       IN /\ DOMAIN output = {key(i) : i \in named}
          /\ \A k \in DOMAIN output :
                output[k] = IF Cardinality(observed(k)) = 1
                            THEN CHOOSE d \in observed(k) : TRUE
                            ELSE Null

\* two spellings of one identity with different dates of birth, and a record
\* without names that carries a date of birth
C6_Witness ==
    /\ done
    /\ Len(input) = 3
    /\ \E i, j, n \in 1..3 :
          /\ input[i].Nom = NomD /\ input[j].Nom = NomDLower
          /\ input[i].Prenom = PrenomA /\ input[j].Prenom = PrenomA
          /\ input[i].Date_de_naissance = Ddn1 /\ input[j].Date_de_naissance = Ddn2
          /\ input[n].Nom = Empty /\ input[n].Prenom = Empty
          /\ input[n].Date_de_naissance = Ddn1
    /\ DOMAIN output = {<<NomDLower, <<"a">>>>}
    /\ output[<<NomDLower, <<"a">>>>] = Null

\* C8: compute_validation_status follows the four-state ruleset.  A key with
\* empty surname and given name gives ""; without history entry the status
\* is "" whether or not a validation entry exists; a history entry without
\* validation entry gives "red"; with both, "green" when the history's
\* expiration and the configured one, both brought to DD/MM/YYYY, are equal
\* and "orange" otherwise.  No other value is returned.
C8_FourStateRuleset ==
    done =>
       LET k == input.key
           history == k \in DOMAIN input.db_lookup
           validated == k \in DOMAIN input.validation_lookup
           status == output[1]
       IN /\ status \in {Empty, StatusRed, StatusGreen, StatusOrange}
          /\ (k[1] = Empty /\ k[2] = Empty) => status = Empty
          /\ ~(k[1] = Empty /\ k[2] = Empty) =>
                /\ ~history => status = Empty
                /\ (history /\ ~validated) => status = StatusRed
                /\ (history /\ validated) =>
                      status = IF _normalize_expire(input.db_lookup[k].expire)
                                    = _normalize_expire(input.default_expire)
                               THEN StatusGreen ELSE StatusOrange

\* both entries exist and the expirations differ
C8_Witness ==
    /\ done
    /\ output[1] = StatusOrange
    /\ input.key = KeyDA
    /\ input.db_lookup[KeyDA].expire = Exp2027
    /\ input.default_expire = Exp2026

\* C10: merging is idempotent.  When (R1, u1, a1) is the result of
\* apply_validation_updates on a roster and a batch, and (R2, u2, a2) its
\* result on R1 and the same batch, R2 equals R1 field for field and u2 and
\* a2 are 0.
C10_MergeIdempotent ==
    done => /\ output.second[1] = output.first[1]
            /\ output.second[2] = 0
            /\ output.second[3] = 0

\* C11: apply_validation_updates never loses or duplicates a roster row.  The
\* result has len(rows) + added rows; its first len(rows) rows are the input
\* rows in their order, each with the identity key it had; an update without
\* identity changes nothing; an update with an identity either is merged
\* into one existing row (no other row changes, no row is added) or appends
\* one row (no existing row changes), never both.
C11_MergeKeepsRows ==
    done =>
       LET R == input.rows
           U == input.updates
           res == output.first
           key(r) == <<normalize_name(r.Nom), normalize_name(r.Prenom)>>
       IN /\ Len(res[1]) = Len(R) + res[3]
          /\ \A i \in 1..Len(R) : key(res[1][i]) = key(R[i])
          /\ \A k \in 1..Len(U) :
                LET b == output.steps[k]
                    a == output.steps[k + 1]
                    changed == {i \in 1..Len(b[1]) : a[1][i] # b[1][i]}
                IN IF key(U[k]) = <<Empty, Empty>> THEN a = b
                   ELSE \/ /\ Len(a[1]) = Len(b[1])
                           /\ a[3] = b[3]
                           /\ Cardinality(changed) <= 1
                           /\ a[2] = b[2] + Cardinality(changed)
                           /\ \A i \in changed : key(a[1][i]) = key(U[k])
                        \/ /\ Len(a[1]) = Len(b[1]) + 1
                           /\ a[3] = b[3] + 1
                           /\ a[2] = b[2]
                           /\ changed = {}
                           /\ key(a[1][Len(a[1])]) = key(U[k])
          /\ output.steps[Len(U) + 1] = res

\* a batch of two updates on a roster of two rows of one identity: one
\* update is merged into the first row and leaves the second alone, the
\* other matches no row and is appended
C11_Witness ==
    /\ done
    /\ Len(input.rows) = 2 /\ Len(input.updates) = 2
    /\ normalize_name(input.rows[1].Nom) = normalize_name(input.rows[2].Nom)
    /\ output.first[2] = 1 /\ output.first[3] = 1
    /\ output.first[1][1] # input.rows[1]
    /\ output.first[1][2] = input.rows[2]
    /\ Len(output.first[1]) = 3

\* C12: normalize_name is idempotent: normalising a normalised text gives
\* the same text.
C12_NormalizeIdempotent == done => output.twice = output.once

\* a text with an accented letter and white space on both sides of a hyphen
C12_Witness ==
    /\ done
    /\ input = <<"e'", " ", "-", "\t", "a">>
    /\ output.once = <<"E", "-", "A">>
    /\ output.twice = <<"E", "-", "A">>

\* C13: normalize_name gives one key to the texts of one identity.  The key
\* is upper case, carries no diacritic, has no white space next to a hyphen,
\* has single spaces only inside and no white space at its ends; it is empty
\* for the empty text and for no text.  The key does not change when the
\* text changes in the case of a letter, in a diacritic (a precomposed
\* letter for its base letter, a combining mark added or removed), or in a
\* white-space character added or removed next to a hyphen, next to another
\* white-space character, or at an end of the text.
C13_NormalizeCanonical ==
    done =>
       LET key == output.once
           t == IF input = Null THEN Empty ELSE input
           n == Len(t)
           white(c) == c \in {" ", "\t"}
           swapped(c) == CASE c = "a" -> {"A"} [] c = "A" -> {"a"}
                           [] c = "e'" -> {"E'", "e", "E"} [] OTHER -> {}
           replaced == UNION {{[t EXCEPT ![i] = c] : c \in swapped(t[i])} : i \in 1..n}
           without(i) == SubSeq(t, 1, i - 1) \o SubSeq(t, i + 1, n)
           with(p, c) == SubSeq(t, 1, p) \o <<c>> \o SubSeq(t, p + 1, n)
           unmarked == {without(i) : i \in {j \in 1..n : t[j] = CombiningAcute}}
           marked == {with(p, CombiningAcute) : p \in 0..n}
           \* a position between two characters, or at an end, where white
           \* space does not count
           soft(p) == \/ p = 0 \/ p = n
                      \/ white(t[p]) \/ t[p] = "-"
                      \/ white(t[p + 1]) \/ t[p + 1] = "-"
           padded == {with(p, c) : p \in {q \in 0..n : soft(q)}, c \in {" ", "\t"}}
           trimmed == {without(i) :
                         i \in {j \in 1..n :
                                  /\ white(t[j])
                                  /\ \/ j = 1 \/ j = n
                                     \/ white(t[j - 1]) \/ t[j - 1] = "-"
                                     \/ white(t[j + 1]) \/ t[j + 1] = "-"}}
       IN /\ \A i \in 1..Len(key) : key[i] \in {"A", "E", " ", "-"}
          /\ \A i \in 1..(Len(key) - 1) :
                ~(key[i] = " " /\ key[i + 1] \in {" ", "-"}) /\ ~(key[i] = "-" /\ key[i + 1] = " ")
          /\ key # Empty => key[1] # " " /\ key[Len(key)] # " "
          /\ t = Empty => key = Empty
          /\ \A v \in replaced \cup unmarked \cup marked \cup padded \cup trimmed :
                normalize_name(v) = key

\* the spellings of the test: two words apart by a run of white space, with
\* white space at the ends and letters of both cases
C13_Witness ==
    /\ done
    /\ input = <<"\t", "a", " ", "\t", "A">>
    /\ output.once = <<"A", " ", "A">>

\* C14: identity equality is decided by normalize_name in every lookup.  Two
\* spellings of a surname with the same normalised key get the same answer
\* from already_printed and find the same events through
\* fetch_latest_contact; an imported line finds in its history query every
\* stored date of birth of the events whose names normalise to its own; a
\* roster row and an update whose names normalise alike are matched by the
\* merge.
C14_IdentityByNormalizeName ==
    LET spellings == {NomD, NomDLower, <<"D", " ">>}
    IN \A n1, n2 \in spellings :
          normalize_name(n1) = normalize_name(n2) =>
             /\ \A d \in {Ddn1, Ddn2}, e \in Expirations :
                   already_printed(prints, n1, PrenomA, d, e)
                     <=> already_printed(prints, n2, PrenomA, d, e)
             /\ \A d \in {Null, Ddn1} :
                   (fetch_latest_contact(prints, n1, PrenomA, d) = {NoContact})
                     <=> (fetch_latest_contact(prints, n2, PrenomA, d) = {NoContact})
             /\ ddn_candidates(prints, LowerKey(n1, PrenomA))
                   = {prints[i].ddn :
                        i \in {j \in 1..Len(prints) :
                                 /\ normalize_name(prints[j].nom) = normalize_name(n2)
                                 /\ normalize_name(prints[j].prenom)
                                      = normalize_name(PrenomA)}} \ {Empty}
             /\ \A r \in 1..Len(rows) :
                   normalize_name(rows[r].Nom) = normalize_name(n1)
                     => MatchesUpdate(rows[r], normalize_name(n2),
                                      normalize_name(rows[r].Prenom), Empty)

\* An amount written with exactly two fractional digits: digits, a dot, two
\* digits.
TwoFractionalDigits(m) ==
    /\ Len(m) >= 4
    /\ m[Len(m) - 2] = "."
    /\ \A k \in 1..Len(m) : k # Len(m) - 2 => IsDigit(m[k])

\* The records of load_validation_export that receive a supplement: the
\* pre-inscription file holds, for the identity of the record, an amount that
\* can be read and is not zero, and the amount of the record can be read.
Supplemented(records, pre, i) ==
    /\ IdentityKey(records[i].nom, records[i].prenom) # NoIdentity
    /\ \E j \in 1..Len(pre) :
          /\ IdentityKey(pre[j].nom, pre[j].prenom)
                = IdentityKey(records[i].nom, records[i].prenom)
          /\ _parse_amount(pre[j].montant_tarif) # NoDecimal
          /\ quantize(_parse_amount(pre[j].montant_tarif)) # 0
    /\ _parse_amount(records[i].montant) # NoDecimal

\* C15, as stated: every validation record, of the three-line extractor or of
\* load_validation_export, with or without a supplement, has an amount that
\* is empty or written with exactly two fractional digits.
C15_AmountTwoDigits ==
    done => \A k \in 1..Len(output.rows) :
               \/ output.rows[k].montant = Empty
               \/ TwoFractionalDigits(output.rows[k].montant)

\* C15, amended: every record of the three-line extractor has an amount with
\* exactly two fractional digits, and so has every record of
\* load_validation_export that received a supplement; a record of
\* load_validation_export without supplement keeps the amount written in the
\* file, whatever its form.
C15_AmountTwoDigitsWhenComputed ==
    done =>
      /\ input.kind = "lines" =>
            \A k \in 1..Len(output.rows) : TwoFractionalDigits(output.rows[k].montant)
      /\ input.kind = "export" =>
            /\ Len(output.rows) = Len(input.records)
            /\ \A i \in 1..Len(input.records) :
                  IF Supplemented(input.records, input.pre, i)
                  THEN TwoFractionalDigits(output.rows[i].montant)
                  ELSE output.rows[i].montant = input.records[i].montant

\* C15, the case: an export file of two records, one that receives a
\* supplement and comes back with two fractional digits, one without
\* supplement whose amount "45" comes back as written.
C15_Witness ==
    /\ done
    /\ input.kind = "export"
    /\ \E i, j \in 1..Len(input.records) :
          /\ Supplemented(input.records, input.pre, i)
          /\ input.records[i].montant = <<"4", "5", ",", "5">>
          /\ output.rows[i].montant # input.records[i].montant
          /\ ~Supplemented(input.records, input.pre, j)
          /\ output.rows[j].montant = <<"4", "5">>

\* The lines at which the extractor found a block, and the lines that lie
\* inside a block found earlier (its second and third line).
BlockStarts == {output.found[k].line : k \in 1..Len(output.found)}
InsideBlock(i) == \E s \in BlockStarts : s < i /\ i < s + 3

\* The one or two lines after line i hold, together, a payment marker and an
\* amount that can be read.
MarkerAndAmountFollow(lines, i) ==
    LET following == {j \in (i + 1)..(i + 2) : j <= Len(lines)}
    IN /\ \E j \in following : HasPay(lines[j])
       /\ \E j \in following : MONTANT_RX(lines[j]) # Null

\* C16, as stated: a line that matches the member-start heuristic (and is
\* not the second or third line of a block already found) yields a record if
\* and only if the next one or two lines together hold a payment marker and
\* an amount; a candidate given up does not hide the candidates on the lines
\* right after it.
C16_RecordIffMarkerAndAmount ==
    (done /\ input.kind = "lines") =>
        \A i \in 1..Len(input.lines) :
            (NAME_AT_START(input.lines[i]).matched /\ ~InsideBlock(i))
                => (i \in BlockStarts <=> MarkerAndAmountFollow(input.lines, i))

\* The lines from..to taken out of a file.
WithoutLines(lines, from, to) ==
    SubSeq(lines, 1, from - 1) \o SubSeq(lines, to + 1, Len(lines))

\* The first member-start line after the block that starts at line s, the
\* length of the file plus one when there is none.
FollowingStart(lines, s) ==
    LET names == {j \in (s + 3)..Len(lines) : NAME_AT_START(lines[j]).matched}
    IN IF names = {} THEN Len(lines) + 1 ELSE CHOOSE j \in names : \A k \in names : j <= k

\* C17: after a record is emitted for the block at line s, the lines from
\* s + 3 up to the next member-start line create no record, the file gives
\* the same records as the file without those lines, a valid block at that
\* next member-start line is found, and the records come in the order of
\* the input.
C17_AnnotationLinesSkipped ==
    (done /\ input.kind = "lines") =>
        /\ \A k \in 1..(Len(output.found) - 1) :
              output.found[k].line < output.found[k + 1].line
        /\ \A s \in BlockStarts :
              LET m == FollowingStart(input.lines, s)
              IN /\ \A j \in (s + 3)..(m - 1) : j \notin BlockStarts
                 /\ parse_validation_three_line_file(
                        WithoutLines(input.lines, s + 3, m - 1)).rows = output.rows
                 /\ (m + 2 <= Len(input.lines) /\ MarkerAndAmountFollow(input.lines, m))
                        => m \in BlockStarts

\* C17, the case: a block, an annotation line, then a second block with
\* another amount; both records are emitted, in the order of the file.
C17_Witness ==
    /\ done
    /\ input.kind = "lines"
    /\ Len(output.rows) = 2
    /\ output.rows[1].montant # output.rows[2].montant
    /\ \E s \in BlockStarts :
          /\ FollowingStart(input.lines, s) > s + 3
          /\ FollowingStart(input.lines, s) \in BlockStarts

\* A token that holds a hyphen.
Hyphenated(token) == \E i \in 1..Len(token) : token[i] = "-"

\* C18: the splitter returns the tokens it was given, whole and in order,
\* the surname holding at least the surname tokens; the tokens it moves to
\* the surname all stand before the first hyphenated token of the given-name
\* phrase, so that a hyphenated token and every token after it stay in the
\* given name.
C18_HyphenatedStaysGiven ==
    done =>
        LET last_tokens == Split(input.last_name)
            first_tokens == Split(input.first_name)
            surname == Split(output[1])
            given == Split(output[2])
            moved == Len(surname) - Len(last_tokens)
        IN /\ surname \o given = last_tokens \o first_tokens
           /\ moved >= 0
           /\ \A i \in 1..Len(first_tokens) : Hyphenated(first_tokens[i]) => moved < i

\* C18, the case: a given-name phrase whose first token is moved to the
\* surname while the hyphenated token further on stays in the given name.
C18_Witness ==
    /\ done
    /\ Len(Split(output[1])) > Len(Split(input.last_name))
    /\ \E i \in 1..Len(Split(output[2])) : Hyphenated(Split(output[2])[i])

\* C19: init_db is additive and idempotent.  After any number of runs on a
\* store that holds events, made by the present schema or by an older one
\* without the email or the amount column, every event is still there, in
\* place, with the value it had in each column it had; and a run that follows
\* another run leaves schema and data as they were.
C19_InitDbAdditiveIdempotent ==
    \A k \in 1..Len(output) :
        /\ "prints" \in input.tables =>
              /\ input.columns \subseteq output[k].columns
              /\ Len(output[k].rows) = Len(input.rows)
              /\ \A r \in 1..Len(input.rows) :
                    \A c \in input.columns : output[k].rows[r][c] = input.rows[r][c]
        /\ k >= 2 => output[k] = output[k - 1]

\* C19, the case: a store of an older schema, without the email and the
\* amount column, that holds two events, after init_db has run twice and
\* added both columns.
C19_Witness ==
    /\ Len(output) >= 2
    /\ "prints" \in input.tables
    /\ input.columns \cap {"email", "montant"} = {}
    /\ Len(input.rows) = 2
    /\ {"email", "montant"} \subseteq output[1].columns
    /\ Len(output[2].rows) = 2

\* The ledger holds a printed event for expiration E with the name of the
\* row (compared as the window compares names) whose date of birth is the
\* row's or is empty.
PrintedForRow(row, E) ==
    \E i \in Idx(prints) :
        /\ prints[i].status = "printed"
        /\ StripOrEmpty(prints[i].expire) = E
        /\ Lower(StripOrEmpty(prints[i].nom)) = Lower(StripOrEmpty(row.Nom))
        /\ Lower(StripOrEmpty(prints[i].prenom)) = Lower(StripOrEmpty(row.Prenom))
        /\ StripOrEmpty(prints[i].ddn) \in {StripOrEmpty(row.Date_de_naissance), Empty}

\* The rows apply_filter keeps, after a refresh, under a mode and expiration E.
KeptUnder(mode, E) ==
    LET kept == apply_filter(rows, per_expire_count, mode, E, Empty, Empty)
    IN {kept[j] : j \in 1..Len(kept)}

\* C20, as stated: once the window has refreshed its counts from the store,
\* for every expiration E a row of that expiration is shown as already
\* printed if and only if the ledger holds a printed event for E with the
\* row's name whose date of birth is the row's or is empty, and as to print
\* otherwise.
C20_WildcardClassification ==
    (frontend = "gui" /\ tables /\ last.op = "on_refresh") =>
        \A E \in Expirations : \A k \in 1..Len(rows) :
            StripOrEmpty(rows[k].Expire_le) = E =>
                /\ k \in KeptUnder("deja", E) <=> PrintedForRow(rows[k], E)
                /\ k \in KeptUnder("a_imprimer", E) <=> ~PrintedForRow(rows[k], E)

\* A file that starts with the header line and goes on with data rows that
\* name a person, with or without columns after the given name.
HeaderThenData(csv) ==
    /\ csv # << >>
    /\ Head(csv) = HeaderLine
    /\ \A k \in 2..Len(csv) :
          /\ Len(csv[k]) >= 2
          /\ normalize_name(Strip(csv[k][1])) # Empty

\* C21, as stated: the import of a file that starts with a header line and
\* whose rows carry columns after surname and given name ends without error,
\* records one printed event per data row from the first two columns, and
\* counts the header neither as imported nor as skipped.
C21_HeaderAndExtraColumns ==
    (done /\ HeaderThenData(input)) =>
        /\ ~output.raised
        /\ output.imported = Len(input) - 1
        /\ output.skipped = 0
        /\ Len(output.prints) = Len(input) - 1
        /\ \A k \in 1..(Len(input) - 1) :
              /\ k <= Len(output.prints)
              /\ output.prints[k].nom = normalize_name(Strip(input[k + 1][1]))
              /\ output.prints[k].prenom = normalize_name(Strip(input[k + 1][2]))
              /\ output.prints[k].status = "printed"

\* The calendar date a text denotes in one of the four formats, NoDate when it
\* parses in none of them.
DenotedDate(text) ==
    LET ds == {strptime(text, DateFormats[k]) : k \in 1..Len(DateFormats)} \ {NoDate}
    IN IF ds = {} THEN NoDate ELSE CHOOSE d \in ds : TRUE

\* The person is known to the ledger and to the validation export, so that
\* the status is decided by the comparison of the two expirations.
ExpirationsCompared ==
    /\ done
    /\ input.key # NoIdentity
    /\ input.key \in DOMAIN input.db_lookup
    /\ input.key \in DOMAIN input.validation_lookup

SameExpiration(c, d) ==
    IF DenotedDate(c) # NoDate /\ DenotedDate(d) # NoDate
    THEN DenotedDate(c) = DenotedDate(d)
    ELSE c = d

\* C22, as stated: the comparison ends with "green" or "orange", "green"
\* exactly when both expirations denote the same calendar date in one of the
\* four formats, or, for text that parses in none, when the raw strings are
\* equal.
C22_ExpireComparisonRaw ==
    ExpirationsCompared =>
        /\ output[1] \in {StatusGreen, StatusOrange}
        /\ output[1] = StatusGreen <=>
              SameExpiration(OrEmpty(input.default_expire),
                             OrEmpty(input.db_lookup[input.key].expire))

\* C22, amended: the same, each expiration being taken without its
\* surrounding whitespace.
C22_ExpireComparisonStripped ==
    ExpirationsCompared =>
        /\ output[1] \in {StatusGreen, StatusOrange}
        /\ output[1] = StatusGreen <=>
              SameExpiration(StripOrEmpty(input.default_expire),
                             StripOrEmpty(input.db_lookup[input.key].expire))

\* the same date written in two formats is found equal
C22_Witness ==
    /\ ExpirationsCompared
    /\ input.default_expire = Iso2026
    /\ input.db_lookup[input.key].expire = Exp2026
    /\ output[1] = StatusGreen

\* The validation lookup with every entry validated by w.
WithValidatedBy(lookup, w) == [k \in DOMAIN lookup |-> [lookup[k] EXCEPT !.valide_par = w]]

\* C23: for the key, the history lookup, the validated identities and the
\* configured expiration of the call, every allowlist and every validated-by
\* text give the status the call returned.
C23_StatusIgnoresValidators ==
    done =>
        \A v \in Allowlists : \A w \in ValidatedBy :
            compute_validation_status(input.key, input.db_lookup,
                WithValidatedBy(input.validation_lookup, w),
                input.default_expire, v) = output[1]

\* an identity validated by a person outside a non-empty allowlist is green
C23_Witness ==
    /\ ExpirationsCompared
    /\ input.validators = {<<"K">>}
    /\ input.validation_lookup[input.key].valide_par = <<"J">>
    /\ output[1] = StatusGreen

\* The k-th update of the batch is merged into a row that exists when its
\* turn comes; MergedInto gives the index of that row.
MergedInto(k) ==
    TargetIndex(output.steps[k][1], normalize_name(input.updates[k].Nom),
                normalize_name(input.updates[k].Prenom),
                StripOrEmpty(input.updates[k].Date_de_naissance))
IsMerged(k) ==
    /\ ~(/\ normalize_name(input.updates[k].Nom) = Empty
          /\ normalize_name(input.updates[k].Prenom) = Empty)
    /\ MergedInto(k) # 0
FlagBefore(k) == output.steps[k][1][MergedInto(k)].ErreurValide
FlagAfter(k) == output.steps[k + 1][1][MergedInto(k)].ErreurValide
ExpireBefore(k) == StripOrEmpty(output.steps[k][1][MergedInto(k)].Expire_le)
ExpireOfUpdate(k) == StripOrEmpty(input.updates[k].Expire_le)
ExpectedFlag(k) ==
    IF ExpireBefore(k) # Empty /\ ExpireBefore(k) # ExpireOfUpdate(k)
    THEN <<"false">> ELSE <<"true">>

\* C24, as stated: after the merge of an update with an expiration the flag
\* of the matched row is the text "false" when the row had another
\* expiration and the text "true" otherwise; an update without expiration
\* leaves the flag as it was.
C24_FlagIsTrueOrFalseText ==
    done =>
        \A k \in 1..Len(input.updates) :
            IsMerged(k) =>
                IF ExpireOfUpdate(k) # Empty
                THEN FlagAfter(k) = ExpectedFlag(k)
                ELSE FlagAfter(k) = FlagBefore(k)

\* C24, amended: the flag reads as the expected value; it is the text "true"
\* or "false" unless the row already held a text that reads as the expected
\* value, which is kept as written.
C24_FlagReadsAsExpected ==
    done =>
        \A k \in 1..Len(input.updates) :
            IsMerged(k) =>
                IF ExpireOfUpdate(k) # Empty
                THEN /\ NormalizeFlag(FlagAfter(k)) = ExpectedFlag(k)
                     /\ FlagAfter(k) = IF NormalizeFlag(FlagBefore(k)) = ExpectedFlag(k)
                                       THEN FlagBefore(k) ELSE ExpectedFlag(k)
                ELSE FlagAfter(k) = FlagBefore(k)

\* an update with another expiration turns the flag of its row to "false",
\* and one with the same expiration turns an empty flag to "true"
C24_Witness ==
    /\ done
    /\ \E k \in 1..Len(input.updates) :
          /\ IsMerged(k)
          /\ ExpireBefore(k) = Exp2026 /\ ExpireOfUpdate(k) = Exp2027
          /\ FlagBefore(k) = <<"oui">> /\ FlagAfter(k) = <<"false">>
    /\ \E k \in 1..Len(input.updates) :
          /\ IsMerged(k)
          /\ ExpireBefore(k) = ExpireOfUpdate(k) /\ ExpireOfUpdate(k) # Empty
          /\ FlagBefore(k) = Empty /\ FlagAfter(k) = <<"true">>

\* The events a run added to the ledger, and the ledger as it was when the
\* k-th of them was recorded.
AddedBy(run) == SubSeq(run.after, Len(run.before) + 1, Len(run.after))
LedgerAt(run, k) == SubSeq(run.after, 1, Len(run.before) + k - 1)
Checked(run) == ~run.force /\ run.log /\ ~run.raised

\* C25, as stated: a run without --force and with logging generates no label
\* and records no event for a tuple that has an event in the ledger, whether
\* the event was there before the run or was recorded earlier in it; the run
\* that follows generates nothing and adds no event; a run with --force
\* generates a label for every row of the file with the expiration.
C25_SimulateKeepsUniqueness ==
    \A n \in 1..Len(output.runs) :
        LET run == output.runs[n]
        IN /\ Checked(run) =>
                /\ \A k \in 1..Len(run.generated) :
                      ~already_printed(run.before, run.generated[k].Nom,
                            run.generated[k].Prenom, run.generated[k].Date_de_naissance,
                            run.generated[k].Expire_le)
                /\ \A k \in 1..Len(AddedBy(run)) :
                      ~already_printed(LedgerAt(run, k), AddedBy(run)[k].nom,
                            AddedBy(run)[k].prenom, AddedBy(run)[k].ddn,
                            AddedBy(run)[k].expire)
                /\ (n < Len(output.runs) /\ ~output.runs[n + 1].force) =>
                      /\ output.runs[n + 1].generated = << >>
                      /\ output.runs[n + 1].after = output.runs[n + 1].before
           /\ (run.force /\ ~run.raised) =>
                run.generated = WithExpiration(input.fichier, input.expiration)

\* The label payload generated for the person and expiration of an event.
PayloadOf(e) ==
    ZplContent([Nom |-> e.nom, Prenom |-> e.prenom, Date_de_naissance |-> e.ddn,
                Expire_le |-> e.expire])
\* The event holds the email and the amount of a row of rs for its person
\* and expiration.
HoldsRowContact(e, rs) ==
    \E i \in 1..Len(rs) :
        /\ StripOrEmpty(rs[i].Nom) = e.nom /\ StripOrEmpty(rs[i].Prenom) = e.prenom
        /\ StripOrEmpty(rs[i].Date_de_naissance) = e.ddn
        /\ StripOrEmpty(rs[i].Expire_le) = e.expire
        /\ e.email = StripOrEmpty(rs[i].Email)
        /\ e.montant = StripOrEmpty(rs[i].Montant)

\* C27, as stated: every event recorded by on_print or by simulate stores
\* the checksum of the label payload generated for it, and its email and
\* amount are those of the roster row, never the payload text.
C27_ChecksumOfPayloadStored ==
    [][ (last'.op \in {"on_print", "simulate"} /\ ~last'.raised) =>
          \A k \in (Len(prints) + 1)..Len(prints') :
              /\ prints'[k].status =
                    (IF last'.op = "on_print" THEN "printed" ELSE "simulated")
              /\ prints'[k].zpl_checksum = sha1(PayloadOf(prints'[k]))
              /\ prints'[k].email # PayloadOf(prints'[k])
              /\ prints'[k].montant # PayloadOf(prints'[k])
              /\ HoldsRowContact(prints'[k],
                    IF last'.op = "on_print" THEN rows ELSE Roster) ]_vars

\* The roster before and after the k-th update of the batch, and the rows of
\* the roster the update may be merged into: same identity key, and a date
\* of birth that is empty, or the update's, or any when the update has none.
RowsBefore(k) == output.steps[k][1]
RowsAfter(k) == output.steps[k + 1][1]
DdnOf(r) == StripOrEmpty(r.Date_de_naissance)
SameKey(r, u) ==
    /\ normalize_name(r.Nom) = normalize_name(u.Nom)
    /\ normalize_name(r.Prenom) = normalize_name(u.Prenom)
Eligible(k) ==
    {i \in 1..Len(RowsBefore(k)) :
        /\ SameKey(RowsBefore(k)[i], input.updates[k])
        /\ \/ DdnOf(RowsBefore(k)[i]) = Empty
           \/ DdnOf(input.updates[k]) = Empty
           \/ DdnOf(RowsBefore(k)[i]) = DdnOf(input.updates[k])}
FirstEligible(k) == CHOOSE i \in Eligible(k) : \A j \in Eligible(k) : i <= j
\* an update that names nobody has no identity key and is passed over
NamesSomebody(k) ==
    \/ normalize_name(input.updates[k].Nom) # Empty
    \/ normalize_name(input.updates[k].Prenom) # Empty

\* C26: each update with an identity key is merged into the first eligible
\* row, rows appended earlier in the batch included, and is appended as a new
\* row only when there is none;
\* an update with a date of birth never changes a row with another date of
\* birth; two rows appended by the batch for one identity key have distinct
\* non-empty dates of birth.
C26_MergeByDateOfBirth ==
    done =>
        /\ \A k \in {n \in 1..Len(input.updates) : NamesSomebody(n)} :
              /\ IF Eligible(k) = {}
                 THEN /\ Len(RowsAfter(k)) = Len(RowsBefore(k)) + 1
                      /\ SubSeq(RowsAfter(k), 1, Len(RowsBefore(k))) = RowsBefore(k)
                      /\ SameKey(RowsAfter(k)[Len(RowsAfter(k))], input.updates[k])
                      /\ DdnOf(RowsAfter(k)[Len(RowsAfter(k))]) = DdnOf(input.updates[k])
                 ELSE /\ Len(RowsAfter(k)) = Len(RowsBefore(k))
                      /\ \A i \in 1..Len(RowsBefore(k)) :
                            i # FirstEligible(k) => RowsAfter(k)[i] = RowsBefore(k)[i]
                      /\ RowsAfter(k)[FirstEligible(k)].Montant
                            = StripOrEmpty(input.updates[k].Montant)
              /\ \A i \in 1..Len(RowsBefore(k)) :
                    (/\ RowsAfter(k)[i] # RowsBefore(k)[i]
                     /\ DdnOf(input.updates[k]) # Empty)
                        => DdnOf(RowsBefore(k)[i]) \in {Empty, DdnOf(input.updates[k])}
        /\ \A i, j \in (Len(input.rows) + 1)..Len(output.first[1]) :
              (i < j /\ SameKey(output.first[1][i], output.first[1][j])) =>
                  /\ DdnOf(output.first[1][i]) # Empty
                  /\ DdnOf(output.first[1][j]) # Empty
                  /\ DdnOf(output.first[1][i]) # DdnOf(output.first[1][j])

\* a batch appends two rows for one identity key and merges its third update
\* into the second of them
C26_Witness ==
    /\ done
    /\ Len(input.updates) = 3
    /\ Len(output.first[1]) = Len(input.rows) + 2
    /\ SameKey(output.first[1][Len(input.rows) + 1], output.first[1][Len(input.rows) + 2])
    /\ Eligible(3) # {}
    /\ FirstEligible(3) = Len(input.rows) + 2

\* C28, as stated: when on_print_ql570 ends, the ledger has one more
\* "printed" event for every label the printer accepted, also when a later
\* label of the batch failed.
C28_SentLabelsRecorded ==
    [][ last'.op = "on_print_ql570" =>
          /\ Len(prints') = Len(prints) + last'.sent
          /\ SubSeq(prints', 1, Len(prints)) = prints
          /\ \A k \in (Len(prints) + 1)..Len(prints') : prints'[k].status = "printed"
          /\ last'.recorded = last'.sent ]_vars

\* The view apply_filter computes from rows and counts, as the set of the
\* rows it keeps; the name filters tried on it.
ViewFrom(rs, pec, mode, E, nom, prenom) ==
    LET kept == apply_filter(rs, pec, mode, E, nom, prenom)
    IN {kept[j] : j \in 1..Len(kept)}
ViewOf(mode, E, nom, prenom) == ViewFrom(rows, per_expire_count, mode, E, nom, prenom)
ViewNameFilters == {Empty, <<"d">>, <<"z">>}
ViewsPartition ==
    \A E \in Expirations \cup {Empty}, nom \in ViewNameFilters, prenom \in {Empty, <<"a">>} :
        /\ ViewOf("a_imprimer", E, nom, prenom) \cap ViewOf("deja", E, nom, prenom) = {}
        /\ ViewOf("a_imprimer", E, nom, prenom) \cup ViewOf("deja", E, nom, prenom)
              = ViewOf("tout", E, nom, prenom)
\* The rows of the window an event was recorded for.
RowsOfEvent(e) ==
    {k \in 1..Len(rows) :
        /\ StripOrEmpty(rows[k].Nom) = e.nom /\ StripOrEmpty(rows[k].Prenom) = e.prenom
        /\ StripOrEmpty(rows[k].Date_de_naissance) = e.ddn
        /\ StripOrEmpty(rows[k].Expire_le) = e.expire}

\* C29: in every state of the window the "to print" and the "already
\* printed" views are disjoint and make up the "all" view, under every
\* filter; and when on_print has recorded events, each row it printed is in
\* the "already printed" view of its expiration and not in the "to print"
\* view, with the rows and counts the handler's refresh left.
C29_ViewsPartitionAndPrintedMoves ==
    /\ [](frontend = "gui" => ViewsPartition)
    /\ [][ (last'.op = "on_print" /\ ~last'.raised) =>
            \A n \in (Len(prints) + 1)..Len(prints') :
                /\ RowsOfEvent(prints'[n]) # {}
                /\ \A k \in RowsOfEvent(prints'[n]) :
                      /\ k \in ViewFrom(rows', per_expire_count', "deja",
                                       prints'[n].expire, Empty, Empty)
                      /\ k \notin ViewFrom(rows', per_expire_count', "a_imprimer",
                                          prints'[n].expire, Empty, Empty) ]_vars

\* on_print has recorded an event, one row is now already printed and
\* another is still to print
C29_Witness ==
    /\ frontend = "gui"
    /\ last.op = "on_print" /\ last.recorded = 1
    /\ ViewOf("deja", Exp2026, Empty, Empty) # {}
    /\ ViewOf("a_imprimer", Exp2026, Empty, Empty) # {}

\* C30: every member-start line that has two lines after it, holding
\* between them the payment marker and an amount, starts a record of its own,
\* also when it comes right after a member whose marker and amount were on
\* one line and so lies within the three lines taken for that member.
C30_NoMemberStartPassedOver ==
    (done /\ input.kind = "lines") =>
        \A i \in 1..(Len(input.lines) - 2) :
            (NAME_AT_START(input.lines[i]).matched /\ MarkerAndAmountFollow(input.lines, i))
                => i \in BlockStarts
====
